---- MODULE Spec2Model ----
(***************************************************************************)
(* Model of the financial-app REST server: the bills routes, the generic   *)
(* owner-scoped CRUD routes, and the derived-metric computations           *)
(* (frequency normalisation, net worth, budget analysis).                  *)
(*                                                                         *)
(* A JSON value that may be absent is modelled as a set with at most one   *)
(* element: {} is undefined/NULL, {v} is the value v.                      *)
(***************************************************************************)
EXTENDS Integers, Sequences, FiniteSets, TLC

VARIABLES
  bills,          \* rows of table bills
  bill_payments,  \* rows of table bill_payments
  tables,         \* rows of the other tables, by table name
  req,            \* the request handled last: route, user, id, missing columns
  resp,           \* the response sent to it
  lastPut,        \* the body of the PUT /bills/:id that has just succeeded
  scenario,       \* the tables a run exercises, its row caps and its fresh ids
  cache,          \* the response cache of the AIService object, oldest entry first
  pending         \* the requests in flight: what each has done and what it has been answered

vars == <<bills, bill_payments, tables, req, resp, lastPut, scenario, cache, pending>>

(***************************************************************************)
(* Bounds                                                                  *)
(***************************************************************************)
MaxBills == 1
MaxPayments == 2
MaxRows == 1
MaxIncomeRows == 2
MaxWealthRows == 3
MaxNewRows == 1

Users == {"A", "B"}

TableNames ==
  {"transactions", "income_sources", "accounts", "retirement_accounts",
   "assets", "financial_targets", "opportunities", "investment_properties",
   "property_loans", "property_tenants", "ai_tokens",
   "net_worth_snapshots", "ai_scheduler_config", "ai_insights_history"}
BillIds == {"b1", "b2"}
PaymentIds == {"p1", "p2"}
\* ids of the rows of the other tables, and the ids a request may name
Ids == {"r1", "r2"}
ReqIds == Ids \cup {"r9"}

Null == {}

\* the value of a present field
Val(x) == CHOOSE v \in x : TRUE

\* JavaScript truthiness of the values the bodies carry
TruthyBool(x) == x = {TRUE}
FalsyStr(x) == x = Null \/ x = {""}
FalsyNum(x) == x = Null \/ x = {0}

\* the NOT NULL columns among cols for which a request supplies no value
Missing(body, cols) == { c \in cols : body[c] = Null }

NoReq == [route |-> "none", user |-> "A", id |-> "", missing |-> {}]
NoResp == [status |-> 0, bills |-> {}, payments |-> {}]

(***************************************************************************)
(* Request bodies                                                          *)
(***************************************************************************)
\* payment dates as <<year, month, day>>; "YYYY-MM-DD" in the source
Dates == {<<2024, 1, 15>>, <<2024, 2, 15>>}

\* bodies of POST /bills and PUT /bills/:id; due_day and notes are the
\* optional columns and are supplied or omitted together
BillBodies ==
  { [bill_name |-> n, bill_type |-> {"electric"}, target_amount |-> t,
     due_day |-> IF o THEN {15} ELSE Null, is_active |-> a,
     notes |-> IF o THEN {"note"} ELSE Null] :
       n \in {Null, {"Electric"}}, t \in {{100}},
       a \in {Null, {TRUE}, {FALSE}}, o \in BOOLEAN }

PaymentBodies ==
  { [amount_paid |-> a, payment_date |-> {d}, notes |-> Null] :
       a \in {Null, {50}}, d \in Dates }

(***************************************************************************)
(* SQL helpers                                                             *)
(***************************************************************************)
\* bills: bill_name, bill_type, target_amount are NOT NULL
BillsNotNullOk(b) ==
  b.bill_name # Null /\ b.bill_type # Null /\ b.target_amount # Null

\* bill_payments: amount_paid, payment_date, month_year are NOT NULL
PaymentsNotNullOk(p) ==
  p.amount_paid # Null /\ p.payment_date # Null /\ p.month_year # Null

\* ORDER BY payment_date DESC; SQLite leaves the order of equal dates open,
\* the model breaks ties by id
DateKey(d) == d[1] * 10000 + d[2] * 100 + d[3]
IdRank(id) == IF id = "p1" THEN 1 ELSE 2
Before(p, q) ==
  \/ DateKey(Val(p.payment_date)) > DateKey(Val(q.payment_date))
  \/ /\ DateKey(Val(p.payment_date)) = DateKey(Val(q.payment_date))
     /\ IdRank(p.id) < IdRank(q.id)

\* the first n rows of rows under ORDER BY payment_date DESC (LIMIT n)
Limit(rows, n) ==
  { p \in rows : Cardinality({ q \in rows : Before(q, p) }) < n }

(***************************************************************************)
(* Bills routes                                                            *)
(***************************************************************************)
EmptyTables == [t \in TableNames |-> {}]

InitBills ==
  /\ cache = <<>>
  /\ pending = <<>>
  /\ tables = EmptyTables
  /\ scenario = [bills |-> MaxBills, payments |-> MaxPayments, rows |-> 0, scope |-> {},
                 ids |-> {}]
  /\ bills = {}
  /\ bill_payments = {}
  /\ req = NoReq
  /\ resp = NoResp
  /\ lastPut = Null

\* GET /bills
GetBills(u, f) ==
  /\ req' = [route |-> "GET /bills", user |-> u, id |-> "", missing |-> {}]
  /\ UNCHANGED <<tables, scenario, cache, pending>>
  /\ resp' = [status |-> 200,
              bills |-> { b \in bills : /\ b.user_id = u
                                        /\ (f # Null =>
                                              b.is_active = IF f = {"true"} THEN {1} ELSE {0}) },
              payments |-> {}]
  /\ lastPut' = Null
  /\ UNCHANGED <<bills, bill_payments>>

\* GET /bills/:id
GetBill(u, id) ==
  LET found == { b \in bills : b.id = id /\ b.user_id = u } IN
  /\ req' = [route |-> "GET /bills/:id", user |-> u, id |-> id, missing |-> {}]
  /\ UNCHANGED <<tables, scenario, cache, pending>>
  /\ resp' = IF found = {}
               THEN [status |-> 404, bills |-> {}, payments |-> {}]
               ELSE [status |-> 200, bills |-> found,
                     payments |-> Limit({ p \in bill_payments : p.bill_id = id }, 12)]
  /\ lastPut' = IF lastPut # Null /\ Val(lastPut).user = u /\ Val(lastPut).id = id
                  THEN lastPut ELSE Null
  /\ UNCHANGED <<bills, bill_payments>>

\* POST /bills
PostBill(u, body) ==
  /\ req' = [route |-> "POST /bills", user |-> u, id |-> "",
             missing |-> Missing(body, {"bill_name", "bill_type", "target_amount"})]
  /\ UNCHANGED <<tables, scenario, cache, pending>>
  /\ lastPut' = Null
  /\ IF FalsyStr(body.bill_name) \/ FalsyStr(body.bill_type) \/ FalsyNum(body.target_amount)
       THEN /\ resp' = [status |-> 400, bills |-> {}, payments |-> {}]
            /\ UNCHANGED <<bills, bill_payments>>
       ELSE /\ Cardinality(bills) < scenario.bills
            /\ \E id \in BillIds :
                 /\ \A b \in bills : b.id # id
                 /\ LET row == [id |-> id, user_id |-> u,
                                bill_name |-> body.bill_name,
                                bill_type |-> body.bill_type,
                                target_amount |-> body.target_amount,
                                due_day |-> body.due_day,
                                is_active |-> IF TruthyBool(body.is_active) THEN {1} ELSE {0},
                                notes |-> body.notes] IN
                    /\ bills' = bills \cup {row}
                    /\ resp' = [status |-> 201, bills |-> {}, payments |-> {}]
            /\ UNCHANGED bill_payments

\* PUT /bills/:id
PutBill(u, id, body) ==
  LET matched == { b \in bills : b.id = id /\ b.user_id = u }
      newRow(b) == [id |-> b.id, user_id |-> b.user_id,
                    bill_name |-> body.bill_name,
                    bill_type |-> body.bill_type,
                    target_amount |-> body.target_amount,
                    due_day |-> body.due_day,
                    is_active |-> IF TruthyBool(body.is_active) THEN {1} ELSE {0},
                    notes |-> body.notes]
      sqlErr == matched # {} /\ ~BillsNotNullOk(body) IN
  /\ req' = [route |-> "PUT /bills/:id", user |-> u, id |-> id,
             missing |-> Missing(body, {"bill_name", "bill_type", "target_amount"})]
  /\ UNCHANGED <<tables, scenario, cache, pending>>
  /\ UNCHANGED bill_payments
  /\ IF sqlErr
       THEN /\ resp' = [status |-> 500, bills |-> {}, payments |-> {}]
            /\ lastPut' = Null
            /\ UNCHANGED bills
       ELSE IF matched = {}
         THEN /\ resp' = [status |-> 404, bills |-> {}, payments |-> {}]
              /\ lastPut' = Null
              /\ UNCHANGED bills
         ELSE /\ bills' = (bills \ matched) \cup { newRow(b) : b \in matched }
              /\ resp' = [status |-> 200, bills |-> {}, payments |-> {}]
              /\ lastPut' = {[user |-> u, id |-> id, body |-> body]}

\* DELETE /bills/:id
DeleteBill(u, id) ==
  LET matched == { b \in bills : b.id = id /\ b.user_id = u } IN
  /\ req' = [route |-> "DELETE /bills/:id", user |-> u, id |-> id, missing |-> {}]
  /\ UNCHANGED <<tables, scenario, cache, pending>>
  /\ lastPut' = Null
  \* first statement: DELETE FROM bill_payments WHERE bill_id = ?
  /\ bill_payments' = { p \in bill_payments : p.bill_id # id }
  \* second statement: DELETE FROM bills WHERE id = ? AND user_id = ?
  /\ bills' = bills \ matched
  /\ resp' = [status |-> IF matched = {} THEN 404 ELSE 200,
              bills |-> {}, payments |-> {}]

\* POST /bills/:id/payments
PostPayment(u, bill_id, body) ==
  /\ req' = [route |-> "POST /bills/:id/payments", user |-> u, id |-> bill_id,
             missing |-> Missing(body, {"amount_paid", "payment_date"})]
  /\ UNCHANGED <<tables, scenario, cache, pending>>
  /\ lastPut' = Null
  /\ UNCHANGED bills
  /\ IF FalsyNum(body.amount_paid) \/ body.payment_date = Null
       THEN /\ resp' = [status |-> 400, bills |-> {}, payments |-> {}]
            /\ UNCHANGED bill_payments
       ELSE /\ Cardinality(bill_payments) < scenario.payments
            /\ \E pid \in PaymentIds :
                 /\ \A p \in bill_payments : p.id # pid
                 /\ LET d == Val(body.payment_date)
                        row == [id |-> pid, bill_id |-> bill_id, user_id |-> u,
                                amount_paid |-> body.amount_paid,
                                payment_date |-> body.payment_date,
                                month_year |-> {SubSeq(d, 1, 2)},
                                notes |-> body.notes] IN
                    /\ bill_payments' = bill_payments \cup {row}
                    /\ resp' = [status |-> 201, bills |-> {}, payments |-> {}]

\* GET /bills/:id/payments
GetPayments(u, bill_id, limit) ==
  LET all == { p \in bill_payments : p.bill_id = bill_id } IN
  /\ req' = [route |-> "GET /bills/:id/payments", user |-> u, id |-> bill_id,
             missing |-> {}]
  /\ UNCHANGED <<tables, scenario, cache, pending>>
  /\ resp' = [status |-> 200, bills |-> {},
              payments |-> IF limit = Null \/ limit = {0} THEN all
                           ELSE Limit(all, Val(limit))]
  /\ lastPut' = Null
  /\ UNCHANGED <<bills, bill_payments>>

\* DELETE /bills/payments/:payment_id
DeletePayment(u, pid) ==
  LET matched == { p \in bill_payments : p.id = pid /\ p.user_id = u } IN
  /\ req' = [route |-> "DELETE /bills/payments/:payment_id", user |-> u,
             id |-> pid, missing |-> {}]
  /\ UNCHANGED <<tables, scenario, cache, pending>>
  /\ bill_payments' = bill_payments \ matched
  /\ resp' = [status |-> IF matched = {} THEN 404 ELSE 200,
              bills |-> {}, payments |-> {}]
  /\ lastPut' = Null
  /\ UNCHANGED bills

BillsNext ==
  \/ \E u \in Users, f \in {Null, {"true"}, {"false"}} : GetBills(u, f)
  \/ \E u \in Users, id \in BillIds : GetBill(u, id)
  \/ \E u \in Users, body \in BillBodies : PostBill(u, body)
  \/ \E u \in Users, id \in BillIds, body \in BillBodies : PutBill(u, id, body)
  \/ \E u \in Users, id \in BillIds : DeleteBill(u, id)
  \/ \E u \in Users, id \in BillIds, body \in PaymentBodies : PostPayment(u, id, body)
  \/ \E u \in Users, id \in BillIds, limit \in {Null, {1}} : GetPayments(u, id, limit)
  \/ \E u \in Users, pid \in PaymentIds : DeletePayment(u, pid)

SpecBills == InitBills /\ [][BillsNext]_vars

(***************************************************************************)
(* Owner-scoped CRUD routes over the other tables                          *)
(*                                                                         *)
(* A row is [id, user_id, parent, data]: parent is the property_id of a    *)
(* property's child row (Null elsewhere), data holds the columns the       *)
(* handlers validate, the NOT NULL columns and the columns later           *)
(* computations read.                                                      *)
(***************************************************************************)
NumCols ==
  {"amount", "balance", "value", "target_value", "original_amount",
   "current_balance", "interest_rate", "monthly_payment", "monthly_rent"}

\* !x of a body field x bound to column c
Falsy(c, x) == x = Null \/ (IF c \in NumCols THEN x = {0} ELSE x = {""})

\* the NOT NULL columns of each table, besides id, user_id and property_id
NotNullCols(t) ==
  CASE t = "transactions" -> {"type", "amount", "category", "date"}
    [] t = "income_sources" -> {"source_name", "source_type", "amount", "frequency"}
    [] t = "accounts" -> {"name", "type", "balance"}
    [] t = "retirement_accounts" -> {"name", "type", "balance"}
    [] t = "assets" -> {"name", "type", "value"}
    [] t = "financial_targets" -> {"category", "name", "target_value"}
    [] t = "opportunities" -> {"name", "type"}
    [] t = "investment_properties" -> {"property_name", "address"}
    [] t = "property_loans" -> {"lender_name", "original_amount", "current_balance",
                                "interest_rate", "monthly_payment", "start_date"}
    [] t = "property_tenants" -> {"tenant_name", "monthly_rent", "lease_start_date"}
    [] OTHER -> {}

AccountTypes == {"checking", "savings", "credit_card", "loan", "mortgage", "other_debt"}
Frequencies == {"weekly", "biweekly", "monthly", "quarterly", "annually", "variable"}
OpportunityStatuses == {"pending", "invested", "completed", "declined"}
RetirementTypes ==
  {"401k", "roth_401k", "traditional_ira", "roth_ira", "sep_ira", "pension", "other"}
AssetTypes ==
  {"real_estate", "vehicle", "jewelry", "art", "collectibles", "business", "other"}
TargetCategories ==
  {"monthly_income", "savings_rate", "net_worth", "debt_payoff", "retirement",
   "emergency_fund", "custom"}
SourceTypes ==
  {"primary_job", "secondary_job", "side_business", "freelance", "rental",
   "investments", "other"}

\* the CHECK(... IN (...)) constraints on the modelled columns; a NULL passes
CheckOk(t, data) ==
  CASE t = "transactions" -> data.type \subseteq {"income", "expense"}
    [] t = "accounts" -> data.type \subseteq AccountTypes
    [] t = "retirement_accounts" -> data.type \subseteq RetirementTypes
    [] t = "assets" -> data.type \subseteq AssetTypes
    [] t = "financial_targets" -> data.category \subseteq TargetCategories
    [] t = "income_sources" ->
         data.frequency \subseteq Frequencies /\ data.source_type \subseteq SourceTypes
    [] t = "opportunities" -> data.status \subseteq OpportunityStatuses
    [] OTHER -> TRUE

\* the statement runs without a constraint error
SqlOk(t, data) ==
  /\ \A c \in NotNullCols(t) : data[c] # Null
  /\ CheckOk(t, data)

\* a complete request body for each table, and a second one
Sample(t) ==
  CASE t = "transactions" ->
         [type |-> {"expense"}, amount |-> {40}, category |-> {"food"},
          date |-> {<<2024, 1, 15>>}]
    [] t = "income_sources" ->
         [source_name |-> {"job"}, source_type |-> {"primary_job"},
          amount |-> {1200}, frequency |-> {"monthly"}, is_active |-> {TRUE}]
    [] t = "accounts" ->
         [name |-> {"main"}, type |-> {"checking"}, balance |-> {1000}]
    [] t = "retirement_accounts" ->
         [name |-> {"401k"}, type |-> {"401k"}, balance |-> {300}]
    [] t = "assets" ->
         [name |-> {"car"}, type |-> {"vehicle"}, value |-> {700}]
    [] t = "financial_targets" ->
         [category |-> {"net_worth"}, name |-> {"goal"}, target_value |-> {10000}]
    [] t = "opportunities" ->
         [name |-> {"fund"}, type |-> {"stock"}, status |-> {"invested"}]
    [] t = "investment_properties" ->
         [property_name |-> {"house"}, address |-> {"1 Main St"}]
    [] t = "property_loans" ->
         [lender_name |-> {"bank"}, original_amount |-> {900}, current_balance |-> {800},
          interest_rate |-> {5}, monthly_payment |-> {10}, start_date |-> {<<2024, 1, 15>>}]
    [] t = "property_tenants" ->
         [tenant_name |-> {"tenant"}, monthly_rent |-> {50},
          lease_start_date |-> {<<2024, 1, 15>>}]

Sample2(t) ==
  CASE t = "transactions" -> [Sample(t) EXCEPT !.type = {"income"}, !.amount = {5000}]
    [] t = "income_sources" ->
         [Sample(t) EXCEPT !.amount = {300}, !.frequency = {"weekly"}, !.is_active = Null]
    [] t = "accounts" -> [Sample(t) EXCEPT !.type = {"credit_card"}, !.balance = {0 - 500}]
    [] t = "retirement_accounts" -> [Sample(t) EXCEPT !.balance = {600}]
    [] t = "assets" -> [Sample(t) EXCEPT !.value = {900}]
    [] t = "financial_targets" -> [Sample(t) EXCEPT !.target_value = {20000}]
    [] t = "opportunities" -> [Sample(t) EXCEPT !.status = Null]
    [] t = "investment_properties" -> [Sample(t) EXCEPT !.address = {"2 Side St"}]
    [] t = "property_loans" -> [Sample(t) EXCEPT !.current_balance = {700}]
    [] t = "property_tenants" -> [Sample(t) EXCEPT !.monthly_rent = {60}]

\* the two complete bodies and every body that lacks one NOT NULL column
Bodies(t) ==
  {Sample(t), Sample2(t)} \cup { [Sample(t) EXCEPT ![c] = Null] : c \in NotNullCols(t) }

TransactionBodies ==
  Bodies("transactions") \cup {[Sample("transactions") EXCEPT !.type = {"bogus"}]}

RowCount == Cardinality(UNION { { <<t, r.id>> : r \in tables[t] } : t \in TableNames })

Respond(s) == resp' = [status |-> s, bills |-> {}, payments |-> {}]

\* the rows WHERE id = ? would select
OwnedByAnyone(t, id, u) == { r \in tables[t] : r.id = id }

\* the rows WHERE id = ? AND user_id = ? selects
Owned(t, id, u) == { r \in tables[t] : r.id = id /\ r.user_id = u }

\* the rows WHERE id = ? AND property_id = ? AND user_id = ? selects
OwnedChild(t, id, parent, u) == { r \in Owned(t, id, u) : r.parent = {parent} }

\* db.run(INSERT ...) behind the handler's validation
Create(route, t, u, parent, invalid, data) ==
  /\ req' = [route |-> route, user |-> u, id |-> "",
             missing |-> Missing(data, NotNullCols(t))]
  /\ UNCHANGED <<bills, bill_payments, lastPut, scenario, cache, pending>>
  /\ IF invalid
       THEN Respond(400) /\ UNCHANGED tables
       ELSE IF ~SqlOk(t, data)
         THEN Respond(500) /\ UNCHANGED tables
         ELSE /\ RowCount < scenario.rows
              /\ \E id \in scenario.ids :
                   /\ \A r \in tables[t] : r.id # id
                   /\ tables' = [tables EXCEPT ![t] =
                        @ \cup {[id |-> id, user_id |-> u, parent |-> parent, data |-> data]}]
              /\ Respond(201)

\* db.run(UPDATE ... WHERE ...) and the this.changes === 0 test
Update(route, t, u, id, matched, data) ==
  /\ req' = [route |-> route, user |-> u, id |-> id,
             missing |-> Missing(data, NotNullCols(t))]
  /\ UNCHANGED <<bills, bill_payments, lastPut, scenario, cache, pending>>
  /\ IF matched # {} /\ ~SqlOk(t, data)
       THEN Respond(500) /\ UNCHANGED tables
       ELSE IF matched = {}
         THEN Respond(404) /\ UNCHANGED tables
         ELSE /\ tables' = [tables EXCEPT ![t] =
                   (@ \ matched) \cup { [r EXCEPT !.data = data] : r \in matched }]
              /\ Respond(200)

\* db.run(DELETE ... WHERE ...) and the this.changes === 0 test
Delete(route, t, u, id, matched) ==
  /\ req' = [route |-> route, user |-> u, id |-> id, missing |-> {}]
  /\ UNCHANGED <<bills, bill_payments, lastPut, scenario, cache, pending>>
  /\ tables' = [tables EXCEPT ![t] = @ \ matched]
  /\ Respond(IF matched = {} THEN 404 ELSE 200)

\* transactions
PostTransaction(u, b) ==
  Create("POST /transactions", "transactions", u, Null,
         \/ Falsy("type", b.type) \/ Falsy("amount", b.amount)
         \/ Falsy("category", b.category) \/ Falsy("date", b.date)
         \/ ~(b.type \subseteq {"income", "expense"}),
         b)
PutTransaction(u, id, b) ==
  Update("PUT /transactions/:id", "transactions", u, id, Owned("transactions", id, u), b)
DeleteTransaction(u, id) ==
  Delete("DELETE /transactions/:id", "transactions", u, id, Owned("transactions", id, u))

\* income sources
PostIncome(u, b) ==
  Create("POST /income", "income_sources", u, Null,
         \/ Falsy("source_name", b.source_name) \/ Falsy("source_type", b.source_type)
         \/ Falsy("amount", b.amount) \/ Falsy("frequency", b.frequency),
         [b EXCEPT !.is_active = IF b.is_active # Null
                                   THEN (IF TruthyBool(b.is_active) THEN {1} ELSE {0})
                                   ELSE {1}])
PutIncome(u, id, b) ==
  Update("PUT /income/:id", "income_sources", u, id, Owned("income_sources", id, u),
         [b EXCEPT !.is_active = IF TruthyBool(b.is_active) THEN {1} ELSE {0}])
DeleteIncome(u, id) ==
  Delete("DELETE /income/:id", "income_sources", u, id, Owned("income_sources", id, u))

\* accounts
PostAccount(u, b) ==
  Create("POST /wealth/accounts", "accounts", u, Null,
         Falsy("name", b.name) \/ Falsy("type", b.type),
         [b EXCEPT !.balance = IF Falsy("balance", b.balance) THEN {0} ELSE b.balance])
PutAccount(u, id, b) ==
  Update("PUT /wealth/accounts/:id", "accounts", u, id, Owned("accounts", id, u), b)
DeleteAccount(u, id) ==
  Delete("DELETE /wealth/accounts/:id", "accounts", u, id, Owned("accounts", id, u))

\* retirement accounts
PostRetirement(u, b) ==
  Create("POST /wealth/retirement", "retirement_accounts", u, Null,
         Falsy("name", b.name) \/ Falsy("type", b.type),
         [b EXCEPT !.balance = IF Falsy("balance", b.balance) THEN {0} ELSE b.balance])
PutRetirement(u, id, b) ==
  Update("PUT /wealth/retirement/:id", "retirement_accounts", u, id,
         Owned("retirement_accounts", id, u), b)
DeleteRetirement(u, id) ==
  Delete("DELETE /wealth/retirement/:id", "retirement_accounts", u, id,
         Owned("retirement_accounts", id, u))

\* assets
PostAsset(u, b) ==
  Create("POST /wealth/assets", "assets", u, Null,
         Falsy("name", b.name) \/ Falsy("type", b.type) \/ b.value = Null, b)
PutAsset(u, id, b) ==
  Update("PUT /wealth/assets/:id", "assets", u, id, Owned("assets", id, u), b)
DeleteAsset(u, id) ==
  Delete("DELETE /wealth/assets/:id", "assets", u, id, Owned("assets", id, u))

\* financial targets
PostTarget(u, b) ==
  Create("POST /wealth/targets", "financial_targets", u, Null,
         \/ Falsy("category", b.category) \/ Falsy("name", b.name)
         \/ Falsy("target_value", b.target_value),
         b)
PutTarget(u, id, b) ==
  Update("PUT /wealth/targets/:id", "financial_targets", u, id,
         Owned("financial_targets", id, u), b)
DeleteTarget(u, id) ==
  Delete("DELETE /wealth/targets/:id", "financial_targets", u, id,
         Owned("financial_targets", id, u))

\* opportunities: the INSERT leaves status to its default 'pending'
PostOpportunity(u, b) ==
  Create("POST /opportunities", "opportunities", u, Null,
         Falsy("name", b.name) \/ Falsy("type", b.type),
         [b EXCEPT !.status = {"pending"}])
PutOpportunity(u, id, b) ==
  Update("PUT /opportunities/:id", "opportunities", u, id, Owned("opportunities", id, u), b)
DeleteOpportunity(u, id) ==
  Delete("DELETE /opportunities/:id", "opportunities", u, id, Owned("opportunities", id, u))

\* investment properties
PostProperty(u, b) ==
  Create("POST /properties", "investment_properties", u, Null, FALSE, b)
PutProperty(u, id, b) ==
  Update("PUT /properties/:id", "investment_properties", u, id,
         Owned("investment_properties", id, u), b)
DeleteProperty(u, id) ==
  Delete("DELETE /properties/:id", "investment_properties", u, id,
         Owned("investment_properties", id, u))

\* property loans
PostLoan(u, propertyId, b) ==
  Create("POST /properties/:propertyId/loans", "property_loans", u, {propertyId}, FALSE, b)
PutLoan(u, propertyId, loanId, b) ==
  Update("PUT /properties/:propertyId/loans/:loanId", "property_loans", u, loanId,
         OwnedChild("property_loans", loanId, propertyId, u), b)

\* property tenants
PostTenant(u, propertyId, b) ==
  Create("POST /properties/:propertyId/tenants", "property_tenants", u, {propertyId},
         FALSE, b)
PutTenant(u, propertyId, tenantId, b) ==
  Update("PUT /properties/:propertyId/tenants/:tenantId", "property_tenants", u, tenantId,
         OwnedChild("property_tenants", tenantId, propertyId, u), b)

\* AI tokens
ValidServices == {"groq", "huggingface", "together", "openrouter", "anthropic"}
IVs == {"iv1", "iv2"}
Tokens == {"gsk_live_0123456789", "gsk_test_9876543210"}

\* buf.toString('hex') / cipher.update(text, 'utf8', 'hex'): the hex digits of
\* the bytes and nothing after them
toHex(bytes) == [bytes |-> bytes, rest |-> ""]

\* Buffer.from(s, 'hex') / decipher.update(s, 'hex', 'utf8'): decoding stops at
\* the first character that is not a hex digit, what follows is dropped
fromHex(s) == s.bytes

\* cipher.getAuthTag() of aes-256-gcm: 16 bytes
AuthTagLength == 16

\* the tag lengths decipher.setAuthTag takes for aes-256-gcm when
\* createDecipheriv is given no authTagLength
ShortAuthTagLengths == {4, 8, 12, 13, 14, 15}

\* encrypt(text) with the random nonce iv: `${iv}:${encrypted}:${authTag}`,
\* as the parts between the colons; Null when it throws
encrypt(text, iv) ==
  IF text = ""
    THEN Null
    ELSE LET encrypted == <<"aes-256-gcm", iv, text>> IN
         {<<toHex(iv), toHex(encrypted),
            toHex([mac |-> <<iv, encrypted>>, len |-> AuthTagLength])>>}

\* decrypt(encryptedData), encryptedData given as the parts split(':') yields
\* (<<>> is the empty string); shortTags tells whether the runtime's
\* setAuthTag takes a tag shorter than 16 bytes; Null when it throws
decrypt(encryptedData, shortTags) ==
  IF encryptedData = <<>>
    THEN Null
    ELSE LET parts == encryptedData IN
         IF Len(parts) # 3
           THEN Null
           ELSE LET iv == fromHex(parts[1])
                    encrypted == fromHex(parts[2])
                    authTag == fromHex(parts[3]) IN
                IF /\ \/ authTag.len = AuthTagLength
                      \/ shortTags /\ authTag.len \in ShortAuthTagLengths
                   /\ authTag.mac = <<iv, encrypted>>
                  THEN {encrypted[3]}
                  ELSE Null

\* maskToken with the test text.length < 12
maskTokenBelow12(text) ==
  IF text = "" \/ Len(text) < 12
    THEN "***********"
    ELSE SubSeq(text, 1, 8) \o "..." \o SubSeq(text, Len(text) - 3, Len(text))

\* maskToken(text)
maskToken(text) ==
  IF text = "" \/ Len(text) < 13
    THEN "***********"
    ELSE SubSeq(text, 1, 8) \o "..." \o SubSeq(text, Len(text) - 3, Len(text))

TokenBodies ==
  { [service |-> {"groq"}, token |-> {t}] : t \in Tokens }
    \cup { [service |-> Null, token |-> {"gsk_live_0123456789"}],
           [service |-> {"bogus"}, token |-> {"gsk_live_0123456789"}],
           [service |-> {"groq"}, token |-> {"short"}],
           [service |-> {"groq"}, token |-> Null] }

\* POST /ai-tokens
PostAiToken(u, b, iv) ==
  LET existing == { r \in tables["ai_tokens"] :
                      r.user_id = u /\ r.data.service = b.service } IN
  /\ req' = [route |-> "POST /ai-tokens", user |-> u, id |-> "",
             missing |-> Missing(b, {"service", "token"})]
  /\ UNCHANGED <<bills, bill_payments, lastPut, scenario, cache, pending>>
  /\ IF \/ Falsy("service", b.service) \/ Falsy("token", b.token)
        \/ ~(b.service \subseteq ValidServices)
        \/ Len(Val(b.token)) < 10
       THEN Respond(400) /\ UNCHANGED tables
       ELSE LET encryptedToken == Val(encrypt(Val(b.token), iv)) IN
            IF existing # {}
              THEN /\ tables' = [tables EXCEPT !["ai_tokens"] =
                        (@ \ existing) \cup
                        { [r EXCEPT !.data.token_encrypted = {encryptedToken},
                                    !.data.is_active = {1}] : r \in existing }]
                   /\ resp' = [status |-> 200,
                               message |-> Val(b.service) \o " token updated successfully",
                               service |-> Val(b.service),
                               masked_token |-> maskToken(Val(b.token))]
              ELSE /\ RowCount < scenario.rows
                   /\ \E id \in scenario.ids :
                        /\ \A r \in tables["ai_tokens"] : r.id # id
                        /\ tables' = [tables EXCEPT !["ai_tokens"] = @ \cup
                             {[id |-> id, user_id |-> u, parent |-> Null,
                               data |-> [service |-> b.service,
                                         token_encrypted |-> {encryptedToken},
                                         is_active |-> {1}, last_used |-> Null]]}]
                        /\ resp' = [status |-> 201,
                                    message |-> Val(b.service) \o " token added successfully",
                                    service |-> Val(b.service), id |-> id,
                                    masked_token |-> maskToken(Val(b.token))]

\* PUT /ai-tokens/:id/toggle
ToggleAiToken(u, id) ==
  LET token == Owned("ai_tokens", id, u) IN
  /\ req' = [route |-> "PUT /ai-tokens/:id/toggle", user |-> u, id |-> id, missing |-> {}]
  /\ UNCHANGED <<bills, bill_payments, lastPut, scenario, cache, pending>>
  /\ IF token = {}
       THEN Respond(404) /\ UNCHANGED tables
       ELSE /\ tables' = [tables EXCEPT !["ai_tokens"] =
                 (@ \ token) \cup
                 { [r EXCEPT !.data.is_active = IF r.data.is_active = {1} THEN {0} ELSE {1}] :
                     r \in token }]
            /\ resp' = [status |-> 200,
                        message |-> IF \E r \in token : r.data.is_active = {1}
                                      THEN "Token deactivated successfully"
                                      ELSE "Token activated successfully",
                        is_active |-> \E r \in token : r.data.is_active # {1}]

\* DELETE /ai-tokens/:id
DeleteAiToken(u, id) ==
  Delete("DELETE /ai-tokens/:id", "ai_tokens", u, id, Owned("ai_tokens", id, u))

\* The handlers of one group never read or write a table of another group,
\* so a run exercises the routes of one group.
Scopes ==
  { {"transactions"}, {"income_sources"},
    {"accounts", "retirement_accounts", "assets"},
    {"financial_targets"}, {"opportunities"},
    {"investment_properties", "property_loans", "property_tenants"},
    {"ai_tokens"}, {"bill_payments"} }

InScope(t) == t \in scenario.scope

InitCrud ==
  /\ cache = <<>>
  /\ pending = <<>>
  /\ tables = EmptyTables
  /\ \E sc \in Scopes :
       scenario = [bills |-> 0, payments |-> MaxRows, rows |-> MaxRows, scope |-> sc,
                   ids |-> Ids]
  /\ bills = {}
  /\ bill_payments = {}
  /\ req = NoReq
  /\ resp = NoResp
  /\ lastPut = Null

CrudNext ==
  \/ \E u \in Users, b \in TransactionBodies :
       InScope("transactions") /\ PostTransaction(u, b)
  \/ \E u \in Users, id \in ReqIds, b \in Bodies("transactions") :
       InScope("transactions") /\ PutTransaction(u, id, b)
  \/ \E u \in Users, id \in ReqIds :
       InScope("transactions") /\ DeleteTransaction(u, id)
  \/ \E u \in Users, b \in Bodies("income_sources") :
       InScope("income_sources") /\ PostIncome(u, b)
  \/ \E u \in Users, id \in ReqIds, b \in Bodies("income_sources") :
       InScope("income_sources") /\ PutIncome(u, id, b)
  \/ \E u \in Users, id \in ReqIds :
       InScope("income_sources") /\ DeleteIncome(u, id)
  \/ \E u \in Users, b \in Bodies("accounts") :
       InScope("accounts") /\ PostAccount(u, b)
  \/ \E u \in Users, id \in ReqIds, b \in Bodies("accounts") :
       InScope("accounts") /\ PutAccount(u, id, b)
  \/ \E u \in Users, id \in ReqIds :
       InScope("accounts") /\ DeleteAccount(u, id)
  \/ \E u \in Users, b \in Bodies("retirement_accounts") :
       InScope("retirement_accounts") /\ PostRetirement(u, b)
  \/ \E u \in Users, id \in ReqIds, b \in Bodies("retirement_accounts") :
       InScope("retirement_accounts") /\ PutRetirement(u, id, b)
  \/ \E u \in Users, id \in ReqIds :
       InScope("retirement_accounts") /\ DeleteRetirement(u, id)
  \/ \E u \in Users, b \in Bodies("assets") :
       InScope("assets") /\ PostAsset(u, b)
  \/ \E u \in Users, id \in ReqIds, b \in Bodies("assets") :
       InScope("assets") /\ PutAsset(u, id, b)
  \/ \E u \in Users, id \in ReqIds :
       InScope("assets") /\ DeleteAsset(u, id)
  \/ \E u \in Users, b \in Bodies("financial_targets") :
       InScope("financial_targets") /\ PostTarget(u, b)
  \/ \E u \in Users, id \in ReqIds, b \in Bodies("financial_targets") :
       InScope("financial_targets") /\ PutTarget(u, id, b)
  \/ \E u \in Users, id \in ReqIds :
       InScope("financial_targets") /\ DeleteTarget(u, id)
  \/ \E u \in Users, b \in Bodies("opportunities") :
       InScope("opportunities") /\ PostOpportunity(u, b)
  \/ \E u \in Users, id \in ReqIds, b \in Bodies("opportunities") :
       InScope("opportunities") /\ PutOpportunity(u, id, b)
  \/ \E u \in Users, id \in ReqIds :
       InScope("opportunities") /\ DeleteOpportunity(u, id)
  \/ \E u \in Users, b \in Bodies("investment_properties") :
       InScope("investment_properties") /\ PostProperty(u, b)
  \/ \E u \in Users, id \in ReqIds, b \in Bodies("investment_properties") :
       InScope("investment_properties") /\ PutProperty(u, id, b)
  \/ \E u \in Users, id \in ReqIds :
       InScope("investment_properties") /\ DeleteProperty(u, id)
  \/ \E u \in Users, b \in Bodies("property_loans") :
       InScope("property_loans") /\ PostLoan(u, "r1", b)
  \/ \E u \in Users, pr \in {"r1", "r9"}, id \in ReqIds, b \in Bodies("property_loans") :
       InScope("property_loans") /\ PutLoan(u, pr, id, b)
  \/ \E u \in Users, b \in Bodies("property_tenants") :
       InScope("property_tenants") /\ PostTenant(u, "r1", b)
  \/ \E u \in Users, pr \in {"r1", "r9"}, id \in ReqIds, b \in Bodies("property_tenants") :
       InScope("property_tenants") /\ PutTenant(u, pr, id, b)
  \/ \E u \in Users, b \in TokenBodies, iv \in IVs :
       InScope("ai_tokens") /\ PostAiToken(u, b, iv)
  \/ \E u \in Users, id \in ReqIds :
       InScope("ai_tokens") /\ ToggleAiToken(u, id)
  \/ \E u \in Users, id \in ReqIds :
       InScope("ai_tokens") /\ DeleteAiToken(u, id)
  \/ \E u \in Users, b \in PaymentBodies :
       InScope("bill_payments") /\ PostPayment(u, "b1", b)
  \/ \E u \in Users, pid \in PaymentIds :
       InScope("bill_payments") /\ DeletePayment(u, pid)

SpecCrud == InitCrud /\ [][CrudNext]_vars

(***************************************************************************)
(* Frequency normalisation and the handlers that apply it                  *)
(***************************************************************************)
\* Amounts are whole currency units.  A monthly figure is held in twelfths
\* of a unit, so that the divisions by 12 and by 3 are exact.
Unit == 12

\* the sum of f[x] over the elements x of S
RECURSIVE SumOf(_, _)
SumOf(f, S) ==
  IF S = {} THEN 0
  ELSE LET x == CHOOSE y \in S : TRUE IN f[x] + SumOf(f, S \ {x})

\* scheduler.calculateMonthlyIncome
calculateMonthlyIncome(amount, frequency) ==
  CASE frequency = "weekly" -> (amount * Unit * 52) \div 12
    [] frequency = "biweekly" -> (amount * Unit * 26) \div 12
    [] frequency = "monthly" -> amount * Unit
    [] frequency = "quarterly" -> (amount * Unit) \div 3
    [] frequency = "annually" -> (amount * Unit) \div 12
    [] frequency = "variable" -> amount * Unit
    [] OTHER -> 0

\* calculateMonthlyIncome of GET /income/summary
summaryCalculateMonthlyIncome(amount, frequency) ==
  CASE frequency = "weekly" -> (amount * Unit * 52) \div 12
    [] frequency = "biweekly" -> (amount * Unit * 26) \div 12
    [] frequency = "monthly" -> amount * Unit
    [] frequency = "quarterly" -> (amount * Unit) \div 3
    [] frequency = "annually" -> (amount * Unit) \div 12
    [] frequency = "variable" -> amount * Unit
    [] OTHER -> 0

\* calculateMonthly of POST /ai/chat
calculateMonthly(amount, frequency) ==
  CASE frequency = "weekly" -> (amount * Unit * 52) \div 12
    [] frequency = "biweekly" -> (amount * Unit * 26) \div 12
    [] frequency = "monthly" -> amount * Unit
    [] frequency = "quarterly" -> (amount * Unit) \div 3
    [] frequency = "annually" -> (amount * Unit) \div 12
    [] frequency = "variable" -> amount * Unit
    [] OTHER -> 0

\* calculateMonthlyIncome of GET /ai/wealth-growth
wealthGrowthCalculateMonthlyIncome(amount, frequency) ==
  CASE frequency = "weekly" -> (amount * Unit * 52) \div 12
    [] frequency = "biweekly" -> (amount * Unit * 26) \div 12
    [] frequency = "monthly" -> amount * Unit
    [] frequency = "quarterly" -> (amount * Unit) \div 3
    [] frequency = "annually" -> (amount * Unit) \div 12
    [] frequency = "variable" -> amount * Unit
    [] OTHER -> 0

\* calculateMonthlyIncome of GET /ai/insights, once its const is initialised
insightsCalculateMonthlyIncome(amount, frequency) ==
  CASE frequency = "weekly" -> (amount * Unit * 52) \div 12
    [] frequency = "biweekly" -> (amount * Unit * 26) \div 12
    [] frequency = "monthly" -> amount * Unit
    [] frequency = "quarterly" -> (amount * Unit) \div 3
    [] frequency = "annually" -> (amount * Unit) \div 12
    [] frequency = "variable" -> amount * Unit
    [] OTHER -> 0

\* SELECT * FROM income_sources WHERE user_id = ? AND is_active = 1
\* SELECT * FROM income_sources WHERE user_id = ?
SourcesActiveOrNot(u) ==
  { r \in tables["income_sources"] : r.user_id = u }

\* SELECT * FROM income_sources WHERE user_id = ? AND is_active = 1
ActiveSources(u) ==
  { r \in tables["income_sources"] : r.user_id = u /\ r.data.is_active = {1} }

\* ABS left out
NoAbs(x) == x

\* SQL ABS
Abs(x) == IF x < 0 THEN 0 - x ELSE x

\* the net worth query of the scheduler and of GET /ai/wealth-growth:
\* four COALESCE(SUM(...), 0) sub-selects
NetWorthQuery(u) ==
  LET acc == { r \in tables["accounts"] : r.user_id = u }
      liquid == { r \in acc : r.data.type \subseteq {"checking", "savings"} }
      debts == { r \in acc :
                   r.data.type \subseteq {"credit_card", "loan", "mortgage", "other_debt"} }
      ret == { r \in tables["retirement_accounts"] : r.user_id = u }
      ast == { r \in tables["assets"] : r.user_id = u }
  IN SumOf([r \in liquid |-> Val(r.data.balance)], liquid)
     + SumOf([r \in ret |-> Val(r.data.balance)], ret)
     + SumOf([r \in ast |-> Val(r.data.value)], ast)
     - SumOf([r \in debts |-> Abs(Val(r.data.balance))], debts)

Readonly == UNCHANGED <<tables, bills, bill_payments, lastPut, scenario, cache, pending>>

\* GET /income/summary
GetIncomeSummary(u) ==
  LET sources == ActiveSources(u)
      monthly == [r \in sources |->
                    summaryCalculateMonthlyIncome(Val(r.data.amount), Val(r.data.frequency))]
  IN /\ req' = [route |-> "GET /income/summary", user |-> u, id |-> "", missing |-> {}]
     /\ resp' = [status |-> 200,
                 total_monthly |-> SumOf(monthly, sources),
                 total_annual |-> SumOf([r \in sources |-> monthly[r] * 12], sources),
                 by_source |-> { [id |-> r.id, monthly |-> monthly[r],
                                  annual |-> monthly[r] * 12,
                                  frequency |-> Val(r.data.frequency),
                                  original_amount |-> Val(r.data.amount)] : r \in sources },
                 active_sources_count |-> Cardinality(sources)]
     /\ Readonly

\* POST /ai/chat with a message about income; the reply is a sentence that
\* carries the total and the number of sources
AiChatIncome(u) ==
  LET result == ActiveSources(u)
      totalMonthly ==
        SumOf([s \in result |-> calculateMonthly(Val(s.data.amount), Val(s.data.frequency))],
              result)
  IN /\ req' = [route |-> "POST /ai/chat", user |-> u, id |-> "", missing |-> {}]
     /\ resp' = [status |-> 200, total_monthly |-> totalMonthly,
                 sources |-> Cardinality(result)]
     /\ Readonly

\* GET /ai/wealth-growth: the figures its opportunity list is built from
AiWealthGrowth(u) ==
  LET income == ActiveSources(u)
      totalMonthlyIncome ==
        SumOf([s \in income |->
                 wealthGrowthCalculateMonthlyIncome(Val(s.data.amount), Val(s.data.frequency))],
              income)
  IN /\ req' = [route |-> "GET /ai/wealth-growth", user |-> u, id |-> "", missing |-> {}]
     /\ resp' = [status |-> 200, total_monthly |-> totalMonthlyIncome,
                 net_worth |-> NetWorthQuery(u)]
     /\ Readonly

\* the columns of bill_payments
BillPaymentColumns ==
  {"id", "bill_id", "user_id", "amount_paid", "payment_date", "month_year", "notes",
   "created_at"}

\* GET /ai/insights.  Its second query selects bp.actual_amount and bp.month;
\* a column the table lacks makes the query reject and the catch block
\* answers 500.  Past that query the income callback calls
\* calculateMonthlyIncome before the const is initialised: with a source to
\* normalise that throws inside the database callback and no response is
\* sent (status 0).
AiInsights(u) ==
  LET sources == ActiveSources(u) IN
  /\ req' = [route |-> "GET /ai/insights", user |-> u, id |-> "", missing |-> {}]
  /\ IF ~({"actual_amount", "month"} \subseteq BillPaymentColumns)
       THEN resp' = [status |-> 500]
       ELSE IF sources # {}
         THEN resp' = [status |-> 0]
         ELSE resp' = [status |-> 200, total_monthly |-> 0]
  /\ Readonly

\* scheduler.getFinancialData: the income, net worth and bills figures
\* (the 30-day expense figures are left out)
GetFinancialData(u) ==
  LET rows == ActiveSources(u)
      totalMonthly ==
        SumOf([s \in rows |->
                 calculateMonthlyIncome(Val(s.data.amount), Val(s.data.frequency))], rows)
      active == { b \in bills : b.user_id = u /\ b.is_active = {1} }
  IN /\ req' = [route |-> "scheduler.getFinancialData", user |-> u, id |-> "",
                missing |-> {}]
     /\ resp' = [status |-> 200, total_monthly |-> totalMonthly,
                 income_sources |-> Cardinality(rows),
                 net_worth |-> NetWorthQuery(u),
                 total_bills |-> SumOf([b \in active |-> Val(b.target_amount)], active)]
     /\ Readonly

\* income bodies: one amount under every frequency the schema admits and
\* one it does not, active or not
IncomeBodies ==
  { [Sample("income_sources") EXCEPT !.frequency = {f}, !.is_active = {a}] :
      f \in Frequencies \cup {"daily"}, a \in BOOLEAN }

InitIncome ==
  /\ cache = <<>>
  /\ pending = <<>>
  /\ tables = EmptyTables
  /\ scenario = [bills |-> 0, payments |-> 0, rows |-> MaxIncomeRows,
                 scope |-> {"income_sources"}, ids |-> Ids]
  /\ bills = {}
  /\ bill_payments = {}
  /\ req = NoReq
  /\ resp = NoResp
  /\ lastPut = Null

IncomeNext ==
  \/ \E u \in Users, b \in IncomeBodies : PostIncome(u, b)
  \/ \E u \in Users, id \in Ids, b \in IncomeBodies : PutIncome(u, id, b)
  \/ \E u \in Users, id \in Ids : DeleteIncome(u, id)
  \/ \E u \in Users : GetIncomeSummary(u)
  \/ \E u \in Users : AiChatIncome(u)
  \/ \E u \in Users : AiWealthGrowth(u)
  \/ \E u \in Users : AiInsights(u)
  \/ \E u \in Users : GetFinancialData(u)

SpecIncome == InitIncome /\ [][IncomeNext]_vars

(***************************************************************************)
(* Net worth                                                               *)
(***************************************************************************)
\* GET /wealth/networth: SUM over the UNION ALL of the asset rows, SUM(ABS)
\* over the debt accounts; a SUM over no rows is NULL and `|| 0` makes it 0
GetNetWorth(u) ==
  LET acc == { r \in tables["accounts"] : r.user_id = u }
      assetRows ==
        { <<"accounts", r.id, Val(r.data.balance)>> :
            r \in { a \in acc : a.data.type \subseteq {"checking", "savings"} } }
        \cup { <<"retirement_accounts", r.id, Val(r.data.balance)>> :
                 r \in { a \in tables["retirement_accounts"] : a.user_id = u } }
        \cup { <<"assets", r.id, Val(r.data.value)>> :
                 r \in { a \in tables["assets"] : a.user_id = u } }
      debtRows ==
        { r \in acc : r.data.type \subseteq {"credit_card", "loan", "mortgage", "other_debt"} }
      assets == IF assetRows = {} THEN Null
                ELSE {SumOf([x \in assetRows |-> x[3]], assetRows)}
      liabilities == IF debtRows = {} THEN Null
                     ELSE {SumOf([r \in debtRows |-> Abs(Val(r.data.balance))], debtRows)}
      totalAssets == IF FalsyNum(assets) THEN 0 ELSE Val(assets)
      totalLiabilities == IF FalsyNum(liabilities) THEN 0 ELSE Val(liabilities)
  IN /\ req' = [route |-> "GET /wealth/networth", user |-> u, id |-> "", missing |-> {}]
     /\ resp' = [status |-> 200, total_assets |-> totalAssets,
                 total_liabilities |-> totalLiabilities,
                 net_worth |-> totalAssets - totalLiabilities]
     /\ Readonly

WealthIds == {"r1", "r2", "r3"}

AccountBodies ==
  { [name |-> {"main"}, type |-> {"checking"}, balance |-> {1000}],
    [name |-> {"rainy"}, type |-> {"savings"}, balance |-> {2000}],
    [name |-> {"card"}, type |-> {"credit_card"}, balance |-> {0 - 500}],
    [name |-> {"car loan"}, type |-> {"loan"}, balance |-> {300}] }

InitWealth ==
  /\ cache = <<>>
  /\ pending = <<>>
  /\ tables = EmptyTables
  /\ scenario = [bills |-> 0, payments |-> 0, rows |-> MaxWealthRows,
                 scope |-> {"accounts", "retirement_accounts", "assets"},
                 ids |-> WealthIds]
  /\ bills = {}
  /\ bill_payments = {}
  /\ req = NoReq
  /\ resp = NoResp
  /\ lastPut = Null

\* user A builds a portfolio; user B holds at most accounts of one kind
WealthNext ==
  \/ \E b \in AccountBodies : PostAccount("A", b)
  \/ PostAccount("B", Sample("accounts"))
  \/ PostRetirement("A", Sample("retirement_accounts"))
  \/ PostAsset("A", Sample("assets"))
  \/ \E u \in Users, id \in WealthIds : DeleteAccount(u, id)
  \/ \E u \in Users : GetNetWorth(u)
  \/ \E u \in Users : GetFinancialData(u)

SpecWealth == InitWealth /\ [][WealthNext]_vars

(***************************************************************************)
(* GET /budget/analysis                                                    *)
(***************************************************************************)
\* potential_savings figures are held in hundredths of a currency unit, so
\* that the products with 0.15 and 0.20 are exact
Cents == 100

\* strftime('%Y-%m', date)
MonthOf(date) == SubSeq(Val(date), 1, 2)

\* SELECT category, SUM(amount), COUNT(*), AVG(amount) ... GROUP BY category
\* over the user's expenses of the month; avg_transaction is total / count
ExpensesByCategory(u, month) ==
  LET rows == { r \in tables["transactions"] :
                  r.user_id = u /\ r.data.type = {"expense"} /\ MonthOf(r.data.date) = month }
      of(c) == { r \in rows : r.data.category = {c} }
  IN { [category |-> c,
        total |-> SumOf([r \in of(c) |-> Val(r.data.amount)], of(c)),
        transaction_count |-> Cardinality(of(c))] :
         c \in { Val(r.data.category) : r \in rows } }

\* SELECT SUM(amount) as total_income ... type = 'income'; NULL without rows
TotalIncomeRow(u, month) ==
  LET rows == { r \in tables["transactions"] :
                  r.user_id = u /\ r.data.type = {"income"} /\ MonthOf(r.data.date) = month }
  IN IF rows = {} THEN Null ELSE {SumOf([r \in rows |-> Val(r.data.amount)], rows)}

\* exp.avg_transaction < x, for a group of at least one row
AvgBelow(exp, x) == exp.total < x * exp.transaction_count

\* Rule 1 with >= in place of >
Rule1AtLeast(expenses, totalIncome) ==
  IF totalIncome > 0
    THEN { [type |-> "high_spending", category |-> exp.category,
            potential_savings |-> (exp.total * Cents * 15) \div 100] :
             exp \in { e \in expenses : e.total * 100 >= 30 * totalIncome } }
    ELSE {}

\* Rule 1: categories over 30% of income; percentage is
\* (exp.total / totalIncome) * 100
Rule1(expenses, totalIncome) ==
  IF totalIncome > 0
    THEN { [type |-> "high_spending", category |-> exp.category,
            potential_savings |-> (exp.total * Cents * 15) \div 100] :
             exp \in { e \in expenses : e.total * 100 > 30 * totalIncome } }
    ELSE {}

\* Rule 2 placed under the income guard of Rule 1
Rule2UnderIncomeGuard(expenses, totalIncome) ==
  IF totalIncome > 0
    THEN { [type |-> "subscription_check", category |-> exp.category,
            potential_savings |-> (exp.total * Cents * 20) \div 100] :
             exp \in { e \in expenses : e.transaction_count > 10 /\ AvgBelow(e, 50) } }
    ELSE {}

\* Rule 2: many small transactions; it does not read totalIncome
Rule2(expenses, totalIncome) ==
  { [type |-> "subscription_check", category |-> exp.category,
     potential_savings |-> (exp.total * Cents * 20) \div 100] :
      exp \in { e \in expenses : e.transaction_count > 10 /\ AvgBelow(e, 50) } }

\* Rule 3 with the recommended amount as potential_savings
Rule3FullAmount(totalIncome, totalExpenses) ==
  LET recommended_savings == (totalIncome * Cents * 20) \div 100
      actual_savings == (totalIncome - totalExpenses) * Cents
  IN IF actual_savings < recommended_savings
       THEN { [type |-> "savings_goal", category |-> "general",
               potential_savings |-> recommended_savings] }
       ELSE {}

\* Rule 3: savings below 20% of income
Rule3(totalIncome, totalExpenses) ==
  LET recommended_savings == (totalIncome * Cents * 20) \div 100
      actual_savings == (totalIncome - totalExpenses) * Cents
  IN IF actual_savings < recommended_savings
       THEN { [type |-> "savings_goal", category |-> "general",
               potential_savings |-> recommended_savings - actual_savings] }
       ELSE {}

\* GET /budget/analysis in the month currentMonth (messages and the
\* formatted savings_rate are left out)
GetBudgetAnalysis(u, currentMonth) ==
  LET expenses == ExpensesByCategory(u, currentMonth)
      income == TotalIncomeRow(u, currentMonth)
      totalIncome == IF FalsyNum(income) THEN 0 ELSE Val(income)
      totalExpenses == SumOf([e \in expenses |-> e.total], expenses)
      suggestions == Rule1(expenses, totalIncome) \cup Rule2(expenses, totalIncome)
                       \cup Rule3(totalIncome, totalExpenses)
  IN /\ req' = [route |-> "GET /budget/analysis", user |-> u, id |-> "", missing |-> {}]
     /\ resp' = [status |-> 200, total_income |-> totalIncome,
                 total_expenses |-> totalExpenses, expenses |-> expenses,
                 suggestions |-> suggestions,
                 total_potential_savings |->
                   SumOf([s \in suggestions |-> s.potential_savings], suggestions)]
     /\ Readonly

Months == {<<2024, 1>>, <<2024, 2>>}

Transaction(id, u, type, amount, category, date) ==
  [id |-> id, user_id |-> u, parent |-> Null,
   data |-> [type |-> {type}, amount |-> {amount}, category |-> {category},
             date |-> {date}]]

\* The transactions a run starts from, each set the result of POST
\* /transactions requests: user A's January holds at most one income row,
\* at most one rent expense and n food expenses of one amount; optionally
\* there is an expense of user B and an expense of A dated February.
InitialTransactions ==
  { (IF inc = 0 THEN {}
       ELSE {Transaction("i1", "A", "income", inc, "salary", <<2024, 1, 15>>)})
    \cup (IF rent = 0 THEN {}
            ELSE {Transaction("e1", "A", "expense", rent, "rent", <<2024, 1, 15>>)})
    \cup { Transaction("f" \o ToString(i), "A", "expense", a, "food", <<2024, 1, 15>>) :
             i \in 1..n }
    \cup (IF others
            THEN {Transaction("x1", "B", "expense", 9000, "rent", <<2024, 1, 15>>),
                  Transaction("x2", "A", "expense", 7000, "rent", <<2024, 2, 15>>)}
            ELSE {}) :
      inc \in {0, 1000, 5000, 10000},
      rent \in {0, 2000, 3000, 3500, 4000, 4500},
      n \in {0, 10, 11}, a \in {40, 50}, others \in BOOLEAN }

BudgetBodies ==
  { [type |-> {"expense"}, amount |-> {40}, category |-> {"food"},
     date |-> {<<2024, 1, 15>>}],
    [type |-> {"income"}, amount |-> {1000}, category |-> {"salary"},
     date |-> {<<2024, 1, 15>>}] }

InitBudget ==
  /\ cache = <<>>
  /\ pending = <<>>
  /\ \E rows \in InitialTransactions :
       /\ tables = [EmptyTables EXCEPT !["transactions"] = rows]
       /\ scenario = [bills |-> 0, payments |-> 0,
                      rows |-> Cardinality(rows) + MaxNewRows,
                      scope |-> {"transactions"}, ids |-> Ids]
  /\ bills = {}
  /\ bill_payments = {}
  /\ req = NoReq
  /\ resp = NoResp
  /\ lastPut = Null

BudgetNext ==
  \/ \E b \in BudgetBodies : PostTransaction("A", b)
  \/ \E u \in Users, m \in Months : GetBudgetAnalysis(u, m)

SpecBudget == InitBudget /\ [][BudgetNext]_vars

(***************************************************************************)
(* Claims about the bills routes                                           *)
(***************************************************************************)
GetRoutes == {"GET /bills", "GET /bills/:id", "GET /bills/:id/payments"}

\* C1: every row in a GET response sent to a user has that user's user_id;
\* in particular GET /bills/:id/payments returns no payment of another user.
C1_OwnRowsOnly ==
  (req.route \in GetRoutes /\ resp.status = 200) =>
    /\ \A b \in resp.bills : b.user_id = req.user
    /\ \A p \in resp.payments : p.user_id = req.user

\* C2: DELETE /bills/:id with an id that matches no bill of the requesting
\* user answers 404 and leaves the row counts of bills and bill_payments
\* unchanged.
C2_DeleteMissingBillChangesNothing ==
  [][ ( /\ req'.route = "DELETE /bills/:id"
        /\ ~ \E b \in bills : b.id = req'.id /\ b.user_id = req'.user )
      => /\ resp'.status = 404
         /\ Cardinality(bills') = Cardinality(bills)
         /\ Cardinality(bill_payments') = Cardinality(bill_payments) ]_vars

\* a JSON boolean and the integer SQLite stores for it
BoolAsInt(x) == IF x = Null THEN Null ELSE IF x = {TRUE} THEN {1} ELSE {0}

\* C3: after a successful PUT /bills/:id, the GET /bills/:id that follows
\* immediately returns the six submitted fields, for every body, also one
\* that omits optional fields.
C3_PutThenGetReturnsBody ==
  (req.route = "GET /bills/:id" /\ resp.status = 200 /\ lastPut # Null) =>
    \A b \in resp.bills :
      LET body == Val(lastPut).body IN
      /\ b.bill_name = body.bill_name
      /\ b.bill_type = body.bill_type
      /\ b.target_amount = body.target_amount
      /\ b.due_day = body.due_day
      /\ b.is_active = BoolAsInt(body.is_active)
      /\ b.notes = body.notes

\* the table each update or delete route addresses
RouteTable ==
  [r \in {"PUT /transactions/:id", "DELETE /transactions/:id"} |-> "transactions"]
  @@ [r \in {"PUT /income/:id", "DELETE /income/:id"} |-> "income_sources"]
  @@ [r \in {"PUT /wealth/accounts/:id", "DELETE /wealth/accounts/:id"} |-> "accounts"]
  @@ [r \in {"PUT /wealth/retirement/:id", "DELETE /wealth/retirement/:id"} |->
        "retirement_accounts"]
  @@ [r \in {"PUT /wealth/assets/:id", "DELETE /wealth/assets/:id"} |-> "assets"]
  @@ [r \in {"PUT /wealth/targets/:id", "DELETE /wealth/targets/:id"} |->
        "financial_targets"]
  @@ [r \in {"PUT /opportunities/:id", "DELETE /opportunities/:id"} |-> "opportunities"]
  @@ [r \in {"PUT /properties/:id", "DELETE /properties/:id"} |-> "investment_properties"]
  @@ [r \in {"PUT /properties/:propertyId/loans/:loanId"} |-> "property_loans"]
  @@ [r \in {"PUT /properties/:propertyId/tenants/:tenantId"} |-> "property_tenants"]
  @@ [r \in {"PUT /ai-tokens/:id/toggle", "DELETE /ai-tokens/:id"} |-> "ai_tokens"]
  @@ [r \in {"DELETE /bills/payments/:payment_id"} |-> "bill_payments"]

\* the rows of the table a route addresses, as the database holds them now
RowsOf(route) ==
  IF RouteTable[route] = "bill_payments" THEN bill_payments ELSE tables[RouteTable[route]]

\* C4: a PUT or DELETE of any of the twelve resource families whose id
\* matches no row owned by the requesting user is answered with 404 and
\* leaves every table as it was.
C4_NoOwnedRowIs404AndNoChange ==
  [][ ( /\ req'.route \in DOMAIN RouteTable
        /\ ~ \E r \in RowsOf(req'.route) : r.id = req'.id /\ r.user_id = req'.user )
      => /\ resp'.status = 404
         /\ tables' = tables
         /\ bills' = bills
         /\ bill_payments' = bill_payments ]_vars

\* a 404 to a user while another user's row with that id is in the table
C4_Witness_OtherUsersRow ==
  /\ req.route \in DOMAIN RouteTable
  /\ resp.status = 404
  /\ \E r \in RowsOf(req.route) : r.id = req.id /\ r.user_id # req.user

\* the routes that insert or update a row from a request body
WriteRoutes ==
  (DOMAIN RouteTable \ {"PUT /ai-tokens/:id/toggle", "DELETE /bills/payments/:payment_id"})
  \cup {"POST /transactions", "POST /income", "POST /wealth/accounts",
        "POST /wealth/retirement", "POST /wealth/assets", "POST /wealth/targets",
        "POST /opportunities", "POST /properties", "POST /properties/:propertyId/loans",
        "POST /properties/:propertyId/tenants", "POST /ai-tokens",
        "POST /bills/:id/payments"}

\* C5: a create or update request that supplies no value for a NOT NULL
\* column of the table is answered with 400, never with 500 (an update
\* that matches no row is answered with 404 before any column is written).
C5_MissingRequiredFieldIs400 ==
  (req.route \in WriteRoutes /\ req.missing # {} /\ resp.status # 404)
    => resp.status = 400

(***************************************************************************)
(* Claims about the derived figures                                        *)
(***************************************************************************)
\* the factor table, in twelfths of a unit: amount*52/12, amount*26/12,
\* amount, amount/3, amount/12, amount, and 0 for anything else
MonthlyEquivalent(amount, frequency) ==
  IF frequency = "weekly" THEN 52 * amount
  ELSE IF frequency = "biweekly" THEN 26 * amount
  ELSE IF frequency \in {"monthly", "variable"} THEN 12 * amount
  ELSE IF frequency = "quarterly" THEN 4 * amount
  ELSE IF frequency = "annually" THEN amount
  ELSE 0

NormalisingRoutes ==
  {"scheduler.getFinancialData", "GET /income/summary", "GET /ai/insights",
   "POST /ai/chat", "GET /ai/wealth-growth"}

\* C6: each of the five implementations of frequency normalisation returns
\* the value of the factor table for every (amount, frequency) pair, and
\* each of the five call sites, run for a user with active income sources,
\* yields the sum of the table values of those sources.
C6_EveryImplementationNormalises ==
  /\ \A a \in {0, 100, 1200}, f \in Frequencies \cup {"daily", ""} :
       /\ calculateMonthlyIncome(a, f) = MonthlyEquivalent(a, f)
       /\ summaryCalculateMonthlyIncome(a, f) = MonthlyEquivalent(a, f)
       /\ insightsCalculateMonthlyIncome(a, f) = MonthlyEquivalent(a, f)
       /\ calculateMonthly(a, f) = MonthlyEquivalent(a, f)
       /\ wealthGrowthCalculateMonthlyIncome(a, f) = MonthlyEquivalent(a, f)
  /\ (req.route \in NormalisingRoutes /\ ActiveSources(req.user) # {}) =>
       /\ resp.status = 200
       /\ resp.total_monthly =
            SumOf([r \in ActiveSources(req.user) |->
                     MonthlyEquivalent(Val(r.data.amount), Val(r.data.frequency))],
                  ActiveSources(req.user))

\* what a row adds to the net worth of its owner
Worth(t, r) ==
  IF t = "assets" THEN Val(r.data.value)
  ELSE IF t = "retirement_accounts" THEN Val(r.data.balance)
  ELSE IF r.data.type \subseteq {"checking", "savings"} THEN Val(r.data.balance)
  ELSE IF Val(r.data.balance) < 0 THEN Val(r.data.balance) ELSE 0 - Val(r.data.balance)

\* the rows of the three wealth tables that a user owns
OwnHoldings(u) ==
  UNION { { <<t, r>> : r \in { x \in tables[t] : x.user_id = u } } :
            t \in {"accounts", "retirement_accounts", "assets"} }

\* C7: GET /wealth/networth and the scheduler's query both return the sum
\* of the user's checking and savings balances, retirement balances and
\* asset values minus the absolute values of the debt balances.
C7_NetWorthFormula ==
  (req.route \in {"GET /wealth/networth", "scheduler.getFinancialData"}) =>
    resp.net_worth =
      SumOf([h \in OwnHoldings(req.user) |-> Worth(h[1], h[2])], OwnHoldings(req.user))

\* {checking 1000, savings 2000, credit_card -500} yields 2500
C7_Witness_Example ==
  /\ req.route = "GET /wealth/networth"
  /\ resp.net_worth = 2500
  /\ { <<Val(r.data.type), Val(r.data.balance)>> :
         r \in { a \in tables["accounts"] : a.user_id = req.user } }
       = {<<"checking", 1000>>, <<"savings", 2000>>, <<"credit_card", 0 - 500>>}
  /\ \A t \in {"retirement_accounts", "assets"} :
       \A r \in tables[t] : r.user_id # req.user

HighSpending(e) ==
  { s \in resp.suggestions : s.type = "high_spending" /\ s.category = e.category }

\* C8: with income > 0, a category gets a high_spending suggestion exactly
\* when its total is strictly above 30% of the income, and the suggestion's
\* potential_savings is 15% of the category total.
C8_HighSpendingIffOver30Percent ==
  (req.route = "GET /budget/analysis" /\ resp.total_income > 0) =>
    \A e \in resp.expenses :
      /\ (HighSpending(e) # {}) <=> (100 * e.total > 30 * resp.total_income)
      /\ \A s \in HighSpending(e) : s.potential_savings = 15 * e.total

\* 3500 of an income of 10000 (35%) triggers high_spending worth 525.00
C8_Witness_35Percent ==
  /\ req.route = "GET /budget/analysis"
  /\ resp.total_income = 10000
  /\ \E e \in resp.expenses :
       e.total = 3500 /\ \E s \in HighSpending(e) : s.potential_savings = 52500

SavingsGoal == { s \in resp.suggestions : s.type = "savings_goal" }

\* C9: a savings_goal suggestion is produced exactly when income minus
\* expenses is below 20% of income, and its potential_savings is
\* 0.20 * income - (income - expenses).
C9_SavingsGoalIffBelow20Percent ==
  (req.route = "GET /budget/analysis") =>
    /\ (SavingsGoal # {}) <=>
         (5 * (resp.total_income - resp.total_expenses) < resp.total_income)
    /\ \A s \in SavingsGoal :
         s.potential_savings =
           20 * resp.total_income - 100 * (resp.total_income - resp.total_expenses)

\* income 5000 with expenses 4500 yields a suggestion of 500.00
C9_Witness_5000_4500 ==
  /\ req.route = "GET /budget/analysis"
  /\ resp.total_income = 5000
  /\ resp.total_expenses = 4500
  /\ \E s \in SavingsGoal : s.potential_savings = 50000

\* C10: a category with more than 10 transactions averaging below 50 gets
\* a subscription_check suggestion worth 20% of its total, whatever the
\* income is and whatever the other two rules produce.
C10_SubscriptionCheckIndependent ==
  (req.route = "GET /budget/analysis") =>
    \A e \in resp.expenses :
      (e.transaction_count > 10 /\ e.total < 50 * e.transaction_count) =>
        [type |-> "subscription_check", category |-> e.category,
         potential_savings |-> 20 * e.total] \in resp.suggestions

\* without income, subscription_check appears next to savings_goal
C10_Witness_NoIncome ==
  /\ req.route = "GET /budget/analysis"
  /\ resp.total_income = 0
  /\ SavingsGoal # {}
  /\ \E s \in resp.suggestions : s.type = "subscription_check"

(***************************************************************************)
(* Bills analytics                                                         *)
(***************************************************************************)
\* a month "YYYY-MM" as <<year, month>>; its rank under string comparison
MonthKey(m) == m[1] * 100 + m[2]

\* n / d rounded to the nearest integer, halves away from zero (d # 0)
RoundDiv(n, d) ==
  LET s == IF (n < 0) # (d < 0) THEN 0 - 1 ELSE 1
  IN s * ((2 * Abs(n) + Abs(d)) \div (2 * Abs(d)))

\* ((actual - target) / target * 100).toFixed(1) for actual = num / den with
\* den > 0: a count of tenths, or the text "Infinity" or "NaN" that toFixed
\* gives for a division by zero
VariancePercent(num, den, target) ==
  LET n == num - target * den
      d == den * target
  IN IF d # 0 THEN [kind |-> "finite", tenths |-> RoundDiv(1000 * n, d)]
     ELSE IF n = 0 THEN [kind |-> "NaN"]
     ELSE [kind |-> "Infinity", negative |-> n < 0]

\* the number 0 of the guarded branches
Zero == [kind |-> "finite", tenths |-> 0]

\* SELECT * FROM bills WHERE user_id = ? AND is_active = 1
ActiveBills(u) == { b \in bills : b.user_id = u /\ b.is_active = {1} }

\* the sum of the fractions q.num / q.den of the records in S, as a fraction
RECURSIVE SumFractions(_)
SumFractions(S) ==
  IF S = {} THEN [num |-> 0, den |-> 1]
  ELSE LET q == CHOOSE x \in S : TRUE
           rest == SumFractions(S \ {q})
       IN [num |-> q.num * rest.den + rest.num * q.den, den |-> q.den * rest.den]

\* GET /bills/analytics/summary; since is the month `months` months ago.
\* The payment query selects by bill_id only.
GetAnalyticsSummary(u, since) ==
  LET active == ActiveBills(u)
      total_target == SumOf([b \in active |-> Val(b.target_amount)], active)
      paid(b, m) == { p \in bill_payments : p.bill_id = b.id /\ Val(p.month_year) = m }
      monthsOf(b) == { Val(p.month_year) :
                         p \in { x \in bill_payments :
                                   /\ x.bill_id = b.id
                                   /\ MonthKey(Val(x.month_year)) >= MonthKey(since) } }
      total_paid(b, m) == SumOf([p \in paid(b, m) |-> Val(p.amount_paid)], paid(b, m))
      trend(b) == { [month |-> m, amount |-> total_paid(b, m),
                     target |-> Val(b.target_amount),
                     variance |-> total_paid(b, m) - Val(b.target_amount),
                     variance_percent |->
                       VariancePercent(total_paid(b, m), 1, Val(b.target_amount))] :
                      m \in monthsOf(b) }
      avgPaid(b) == IF monthsOf(b) # {}
                      THEN [num |-> SumOf([m \in monthsOf(b) |-> total_paid(b, m)], monthsOf(b)),
                            den |-> Cardinality(monthsOf(b))]
                      ELSE [num |-> 0, den |-> 1]
      withTrend(b) == [id |-> b.id, target_amount |-> Val(b.target_amount),
                       average_paid |-> avgPaid(b),
                       variance_percent |->
                         IF Val(b.target_amount) > 0
                           THEN VariancePercent(avgPaid(b).num, avgPaid(b).den,
                                                Val(b.target_amount))
                           ELSE Zero,
                       trend_data |-> trend(b),
                       payments_count |-> Cardinality(monthsOf(b))]
      billsWithTrends == { withTrend(b) : b \in active }
      totalAvgPaid == SumFractions({ [id |-> w.id, num |-> w.average_paid.num,
                                      den |-> w.average_paid.den] : w \in billsWithTrends })
  IN /\ req' = [route |-> "GET /bills/analytics/summary", user |-> u, id |-> "",
                missing |-> {}]
     /\ resp' = IF active = {}
                  THEN [status |-> 200, total_target_monthly |-> 0,
                        bills_with_trends |-> {}, overall_variance |-> 0]
                  ELSE [status |-> 200, total_target_monthly |-> total_target,
                        total_average_paid |-> totalAvgPaid,
                        overall_variance_percent |->
                          IF total_target > 0
                            THEN VariancePercent(totalAvgPaid.num, totalAvgPaid.den,
                                                 total_target)
                            ELSE Zero,
                        bills_with_trends |-> billsWithTrends]
     /\ lastPut' = Null
     /\ UNCHANGED <<tables, bills, bill_payments, scenario, cache, pending>>

\* GET /bills/analytics/trends
GetAnalyticsTrends(u, since) ==
  LET active == ActiveBills(u)
      totalTarget == SumOf([b \in active |-> Val(b.target_amount)], active)
      mine == { p \in bill_payments :
                  p.user_id = u /\ MonthKey(Val(p.month_year)) >= MonthKey(since) }
      of(m) == { p \in mine : Val(p.month_year) = m }
      total_paid(m) == SumOf([p \in of(m) |-> Val(p.amount_paid)], of(m))
      monthly_data == { [month |-> m, actual |-> total_paid(m), target |-> totalTarget,
                         variance |-> total_paid(m) - totalTarget,
                         variance_percent |-> VariancePercent(total_paid(m), 1, totalTarget)] :
                          m \in { Val(p.month_year) : p \in mine } }
  IN /\ req' = [route |-> "GET /bills/analytics/trends", user |-> u, id |-> "",
                missing |-> {}]
     /\ resp' = [status |-> 200,
                 monthly_data |-> IF active = {} THEN {} ELSE monthly_data]
     /\ lastPut' = Null
     /\ UNCHANGED <<tables, bills, bill_payments, scenario, cache, pending>>

\* complete bill bodies; PUT accepts the target 0 that POST rejects
AnalyticsBillBodies ==
  { [bill_name |-> {"Electric"}, bill_type |-> {"electric"}, target_amount |-> {t},
     due_day |-> Null, is_active |-> {a}, notes |-> Null] :
       t \in {100, 0}, a \in BOOLEAN }

AnalyticsPaymentBodies ==
  { [amount_paid |-> {a}, payment_date |-> {d}, notes |-> Null] :
       a \in {50, 100}, d \in Dates }

AnalyticsNext ==
  \/ \E u \in Users, body \in AnalyticsBillBodies : PostBill(u, body)
  \/ \E u \in Users, id \in BillIds, body \in AnalyticsBillBodies : PutBill(u, id, body)
  \/ \E u \in Users, body \in AnalyticsPaymentBodies : PostPayment(u, "b1", body)
  \/ \E u \in Users, since \in {<<2023, 8>>, <<2024, 2>>} : GetAnalyticsSummary(u, since)
  \/ \E u \in Users, since \in {<<2023, 2>>, <<2024, 2>>} : GetAnalyticsTrends(u, since)

SpecAnalytics == InitBills /\ [][AnalyticsNext]_vars

\* the variance percentages of an analytics response, each with the actual
\* amount (as a fraction) and the target it was computed from
ReportedVariances ==
  IF req.route = "GET /bills/analytics/trends"
    THEN { [num |-> m.actual, den |-> 1, target |-> m.target,
            percent |-> m.variance_percent] : m \in resp.monthly_data }
    ELSE { [num |-> w.average_paid.num, den |-> w.average_paid.den,
            target |-> w.target_amount, percent |-> w.variance_percent] :
             w \in resp.bills_with_trends }
         \cup UNION { { [num |-> t.amount, den |-> 1, target |-> t.target,
                         percent |-> t.variance_percent] : t \in w.trend_data } :
                      w \in resp.bills_with_trends }
         \cup (IF resp.bills_with_trends # {}
                 THEN { [num |-> resp.total_average_paid.num,
                         den |-> resp.total_average_paid.den,
                         target |-> resp.total_target_monthly,
                         percent |-> resp.overall_variance_percent] }
                 ELSE {})

\* C11: every variance percentage of GET /bills/analytics/summary and GET
\* /bills/analytics/trends is (actual - target)/target*100 (to one decimal)
\* when the target is above 0 and is 0 when the target is 0; none is
\* Infinity or NaN.
C11_VariancePercentGuardsZeroTarget ==
  (req.route \in {"GET /bills/analytics/summary", "GET /bills/analytics/trends"}) =>
    \A v \in ReportedVariances :
      /\ v.percent.kind = "finite"
      /\ v.target > 0 =>
           v.percent.tenths = RoundDiv(1000 * (v.num - v.target * v.den), v.den * v.target)
      /\ v.target = 0 => v.percent = Zero

\* ---------------------------------------------------------------------------
\* utils/encryption.js: encrypt, decrypt and validateEncryptionSetup applied to
\* bounded inputs
\* ---------------------------------------------------------------------------

\* the texts handed to encrypt
EncryptTexts == Tokens \cup {""}

\* what encrypt returns for the non-empty texts
Genuine == { Val(encrypt(t, iv)) : t \in Tokens, iv \in IVs }

\* characters after the hex digits of a part: none, or two that are no hex digits
Rests == {"", "zz"}

\* the lengths an auth tag is cut to
TagLengths == {AuthTagLength, 4, 3}

\* the strings handed to decrypt: the empty string, strings of two and of four
\* parts, and every recombination of the parts of genuine values, with the
\* ciphertext followed by extra characters and the auth tag cut short or
\* followed by extra characters
EncryptedInputs ==
  {<<>>}
    \cup { SubSeq(g, 1, 2) : g \in Genuine }
    \cup { g \o <<g[3]>> : g \in Genuine }
    \cup { <<g1[1], [g2[2] EXCEPT !.rest = r2],
             [bytes |-> [g3[3].bytes EXCEPT !.len = l], rest |-> r3]>> :
             g1 \in Genuine, g2 \in Genuine, g3 \in Genuine,
             r2 \in Rests, r3 \in Rests, l \in TagLengths }

Encrypt(text, iv) ==
  /\ req' = [route |-> "encrypt", user |-> "A", id |-> "", missing |-> {}, text |-> text]
  /\ resp' = [status |-> 0, encrypted |-> encrypt(text, iv)]
  /\ Readonly

Decrypt(encryptedData, shortTags) ==
  /\ req' = [route |-> "decrypt", user |-> "A", id |-> "", missing |-> {},
             encryptedData |-> encryptedData]
  /\ resp' = [status |-> 0, decrypted |-> decrypt(encryptedData, shortTags)]
  /\ Readonly

\* validateEncryptionSetup(): testData is 'test-encryption-' + Date.now()
ValidateEncryptionSetup(now, iv, shortTags) ==
  LET testData == "test-encryption-" \o ToString(now)
      encrypted == encrypt(testData, iv)
      decrypted == IF encrypted = Null THEN Null ELSE decrypt(Val(encrypted), shortTags) IN
  /\ req' = [route |-> "validateEncryptionSetup", user |-> "A", id |-> "", missing |-> {}]
  /\ resp' = [status |-> 0, valid |-> decrypted = {testData}]
  /\ Readonly

InitEncryption ==
  /\ cache = <<>>
  /\ pending = <<>>
  /\ bills = {} /\ bill_payments = {}
  /\ tables = EmptyTables
  /\ req = NoReq /\ resp = NoResp /\ lastPut = Null
  /\ scenario = [bills |-> 0, payments |-> 0, rows |-> 0, scope |-> {}, ids |-> {}]

EncryptionNext ==
  \/ \E text \in EncryptTexts, iv \in IVs : Encrypt(text, iv)
  \/ \E d \in EncryptedInputs, shortTags \in BOOLEAN : Decrypt(d, shortTags)
  \/ \E now \in {1, 2}, iv \in IVs, shortTags \in BOOLEAN :
       ValidateEncryptionSetup(now, iv, shortTags)

SpecEncryption == InitEncryption /\ [][EncryptionNext]_vars

\* C16: decrypt(encrypt(t)) = t for every non-empty t, encrypt of the empty
\* text throws, validateEncryptionSetup is true, and decrypt throws for every
\* value that is not three parts or is not a value encrypt produced
C16_RoundTripAndRejection ==
  /\ req.route = "encrypt" =>
       IF req.text = "" THEN resp.encrypted = Null
       ELSE /\ resp.encrypted # Null
            /\ \A shortTags \in BOOLEAN :
                 decrypt(Val(resp.encrypted), shortTags) = {req.text}
  /\ req.route = "validateEncryptionSetup" => resp.valid
  /\ req.route = "decrypt" =>
       IF req.encryptedData \in Genuine
         THEN \E t \in Tokens : resp.decrypted = {t}
         ELSE resp.decrypted = Null

\* ---------------------------------------------------------------------------
\* services/aiService.js, LLMService: getUserTokens, updateLastUsed and the
\* provider loop of generateCompletion
\* ---------------------------------------------------------------------------

MaxTokens == 2

\* the providers array of generateCompletion, in its order
Providers == <<"groq", "huggingface", "together", "openrouter">>

\* the name each call* method puts in front of "API failed"
ProviderLabel ==
  [p \in {"groq", "huggingface", "together", "openrouter"} |->
     CASE p = "groq" -> "Groq"
       [] p = "huggingface" -> "Hugging Face"
       [] p = "together" -> "Together AI"
       [] p = "openrouter" -> "OpenRouter"]

Whitespace == {" ", "\n"}

\* String.prototype.trim; a text is the sequence of its words, line breaks
\* and punctuation marks
RECURSIVE trim(_)
trim(s) ==
  IF s = <<>> THEN s
  ELSE IF Head(s) \in Whitespace THEN trim(Tail(s))
  ELSE IF s[Len(s)] \in Whitespace THEN trim(SubSeq(s, 1, Len(s) - 1))
  ELSE s

\* what a provider's API answers
CompletionTexts == {<<" ", "Save", "\n">>}

\* what one provider.method(...) call does: it returns a text or throws
CallOutcomes ==
  { [ok |-> TRUE, text |-> t, message |-> ""] : t \in CompletionTexts }
    \cup { [ok |-> FALSE, text |-> <<>>, message |-> "timeout of 30000ms exceeded"] }

\* getUserTokens(userId): the decrypted tokens by service of the user's active
\* rows; a row that fails to decrypt is left out
\* getUserTokens with the SELECT lacking AND is_active = 1
getUserTokensActiveOrNot(u, shortTags) ==
  LET rows == { r \in tables["ai_tokens"] : r.user_id = u }
      readable == { r \in rows : decrypt(Val(r.data.token_encrypted), shortTags) # Null } IN
  [ s \in { Val(r.data.service) : r \in readable } |->
      Val(decrypt(Val((CHOOSE r \in readable : r.data.service = {s}).data.token_encrypted),
                  shortTags)) ]

getUserTokens(u, shortTags) ==
  LET rows == { r \in tables["ai_tokens"] : r.user_id = u /\ r.data.is_active = {1} }
      readable == { r \in rows : decrypt(Val(r.data.token_encrypted), shortTags) # Null } IN
  [ s \in { Val(r.data.service) : r \in readable } |->
      Val(decrypt(Val((CHOOSE r \in readable : r.data.service = {s}).data.token_encrypted),
                  shortTags)) ]

\* UPDATE ai_tokens SET last_used = CURRENT_TIMESTAMP WHERE user_id = ?
updateLastUsedOfUser(rows, u, service, now) ==
  { IF r.user_id = u THEN [r EXCEPT !.data.last_used = {now}] ELSE r : r \in rows }

\* UPDATE ai_tokens SET last_used = CURRENT_TIMESTAMP WHERE user_id = ? AND service = ?
updateLastUsed(rows, u, service, now) ==
  { IF r.user_id = u /\ r.data.service = {service}
      THEN [r EXCEPT !.data.last_used = {now}] ELSE r : r \in rows }

\* the for loop of generateCompletion from providers[i] on: call[p] is what
\* provider p's API does and update[p] whether the UPDATE after it succeeds.
\* The UPDATE is awaited inside the try block, so its rejection is caught like
\* a failure of the API call and the loop goes on to the next provider.
RECURSIVE RunProviders(_, _, _, _, _, _, _)
RunProviders(i, u, tokens, call, update, now, run) ==
  IF i > Len(Providers) THEN run
  ELSE LET name == Providers[i] IN
       IF name \notin DOMAIN tokens \/ tokens[name] = ""
         THEN RunProviders(i + 1, u, tokens, call, update, now, run)
         ELSE LET outcome == call[name]
                  saved == outcome.ok /\ update[name]
                  attempted == [run EXCEPT !.called = Append(@,
                                  [provider |-> name, token |-> tokens[name],
                                   ok |-> outcome.ok, text |-> outcome.text,
                                   message |-> IF outcome.ok THEN ""
                                               ELSE ProviderLabel[name] \o " API failed: "
                                                      \o outcome.message,
                                   updated |-> saved])] IN
              IF ~outcome.ok
                THEN RunProviders(i + 1, u, tokens, call, update, now,
                       [attempted EXCEPT !.lastError =
                          {ProviderLabel[name] \o " API failed: " \o outcome.message}])
                ELSE IF ~update[name]
                  THEN RunProviders(i + 1, u, tokens, call, update, now,
                         [attempted EXCEPT !.lastError = {"SQLITE_BUSY: database is locked"}])
                  ELSE [attempted EXCEPT
                          !.rows = updateLastUsed(@, u, name, now),
                          !.result = {[text |-> trim(outcome.text), provider |-> name]}]

\* generateCompletion(userId, prompt, options)
GenerateCompletion(u, now, shortTags) ==
  LET tokens == getUserTokens(u, shortTags) IN
  \E call \in [DOMAIN tokens -> CallOutcomes] :
    \E update \in [{ p \in DOMAIN tokens : call[p].ok } -> BOOLEAN] :
      LET run == RunProviders(1, u, tokens, call, update, now,
                   [rows |-> tables["ai_tokens"], called |-> <<>>,
                    lastError |-> Null, result |-> Null]) IN
      /\ req' = [route |-> "generateCompletion", user |-> u, id |-> "", missing |-> {}]
      /\ tables' = [tables EXCEPT !["ai_tokens"] = run.rows]
      /\ resp' = [status |-> 0, called |-> run.called, result |-> run.result,
                  error |-> IF run.result # Null THEN Null
                            ELSE IF run.lastError # Null
                              THEN {[message |-> "All AI providers failed. Last error: "
                                                   \o Val(run.lastError),
                                     failures |-> <<Val(run.lastError)>>]}
                              ELSE {[message |-> "No AI tokens configured. Please add at least one token in AI Settings.",
                                     failures |-> <<>>]}]
      /\ UNCHANGED <<bills, bill_payments, lastPut, scenario, cache, pending>>

\* the bodies of POST /ai-tokens of the runs that generate completions
LLMTokenBodies ==
  { [service |-> {s}, token |-> {"gsk_live_0123456789"}] : s \in ValidServices }

\* the value CURRENT_TIMESTAMP takes
Timestamps == {1}

\* the row POST /ai-tokens inserted for user u's token of service s
TokenRow(u, s) ==
  [id |-> u \o "-" \o s, user_id |-> u, parent |-> Null,
   data |-> [service |-> {s},
             token_encrypted |-> encrypt("gsk_live_0123456789", "iv1"),
             is_active |-> {1}, last_used |-> Null]]

\* user A holds tokens of at most MaxTokens services, user B one of groq
InitLLM ==
  /\ cache = <<>>
  /\ pending = <<>>
  /\ bills = {} /\ bill_payments = {}
  /\ req = NoReq /\ resp = NoResp /\ lastPut = Null
  /\ scenario = [bills |-> 0, payments |-> 0, rows |-> 0,
                 scope |-> {"ai_tokens"}, ids |-> {}]
  /\ \E held \in SUBSET ValidServices :
       /\ Cardinality(held) <= MaxTokens
       /\ tables = [EmptyTables EXCEPT !["ai_tokens"] =
                      { TokenRow("A", sv) : sv \in held } \cup {TokenRow("B", "groq")}]

LLMNext ==
  \/ \E b \in LLMTokenBodies : PostAiToken("A", b, "iv1")
  \/ \E sv \in ValidServices : ToggleAiToken("A", "A-" \o sv)
  \/ \E now \in Timestamps, shortTags \in BOOLEAN : GenerateCompletion("A", now, shortTags)

SpecLLM == InitLLM /\ [][LLMNext]_vars

\* the services of which user u has an active stored token
ActiveServices(u) ==
  { Val(r.data.service) :
      r \in { x \in tables["ai_tokens"] : x.user_id = u /\ x.data.is_active = {1} } }

\* the place of provider p in the priority order
ProviderIndex(p) == CHOOSE i \in 1..Len(Providers) : Providers[i] = p

\* the first entry of the attempts satisfying Good, if any
FirstAttempt(called, Good(_)) ==
  { called[i] : i \in { k \in 1..Len(called) :
                          Good(called[k]) /\ \A j \in 1..(k - 1) : ~Good(called[j]) } }

CallSucceeded(c) == c.ok

CallSucceededAndSaved(c) == c.ok /\ c.updated

\* the attempts of a request are the user's active providers, in the priority
\* order and without a gap
AttemptsInOrder(u, called, returned) ==
  /\ \A i \in 1..Len(called) :
       /\ called[i].provider \in ActiveServices(u)
       /\ \A j \in 1..Len(called) :
            i < j => ProviderIndex(called[i].provider) < ProviderIndex(called[j].provider)
  /\ \A i \in 1..Len(Providers) :
       (/\ Providers[i] \in ActiveServices(u)
        /\ \/ returned = {}
           \/ \E c \in returned : i <= ProviderIndex(c.provider))
         => \E k \in 1..Len(called) : called[k].provider = Providers[i]

\* the request returned the text of attempt c and stamped last_used on the
\* user's row of that provider and on no other row
ReturnedAndMarked(u, c) ==
  /\ resp'.result = {[text |-> trim(c.text), provider |-> c.provider]}
  /\ resp'.error = Null
  /\ \A r \in tables'["ai_tokens"] :
       IF r.user_id = u /\ r.data.service = {c.provider}
         THEN r.data.last_used # Null
         ELSE r \in tables["ai_tokens"]
  /\ Cardinality(tables'["ai_tokens"]) = Cardinality(tables["ai_tokens"])

C13_NoCallAfterSuccessfulCall ==
  req.route = "generateCompletion" =>
    \A i \in 1..Len(resp.called) : \A j \in 1..Len(resp.called) :
      i < j => ~resp.called[i].ok

\* C14: when every attempted provider fails, exactly one error is thrown and
\* it carries the failure of each attempted provider; nothing is returned and
\* no last_used is updated
C14_AggregatedErrorOnTotalFailure ==
  (/\ req.route = "generateCompletion"
   /\ resp.called # <<>>
   /\ \A i \in 1..Len(resp.called) : ~resp.called[i].ok) =>
     /\ resp.result = Null
     /\ Cardinality(resp.error) = 1
     /\ \A e \in resp.error :
          e.failures = [i \in 1..Len(resp.called) |-> resp.called[i].message]
     /\ \A i \in 1..Len(resp.called) : ~resp.called[i].updated

\* ---------------------------------------------------------------------------
\* LLMService.generateFinancialInsights and parseNaturalLanguageInsights,
\* applied to the result generateCompletion returned
\* ---------------------------------------------------------------------------

MaxTextLen == 4

\* what a completion text is made of: brackets, an object literal, a comma,
\* a line break, a bullet mark and a word
TextTokens == {"[", "]", "{}", ",", "\n", "-", "Save"}

\* the characters /^[\d\*\-\•]/ accepts at the start of a line
Markers == {"-"}

\* the texts generateCompletion returns: trimmed, of at most MaxTextLen tokens
InsightTexts ==
  { t \in UNION { [1..n -> TextTokens] : n \in 0..MaxTextLen } : trim(t) = t }

\* JSON.parse of one value at the head of the tokens t: the value and the
\* tokens after it, or Null on a syntax error
RECURSIVE parseValue(_)
RECURSIVE parseElements(_, _)
parseValue(t) ==
  IF t = <<>> THEN Null
  ELSE IF Head(t) = "{}" THEN {[value |-> [json |-> "object"], rest |-> Tail(t)]}
  ELSE IF Head(t) = "["
    THEN IF Len(t) >= 2 /\ t[2] = "]"
           THEN {[value |-> [json |-> "array", items |-> <<>>],
                  rest |-> SubSeq(t, 3, Len(t))]}
           ELSE parseElements(Tail(t), <<>>)
  ELSE Null

parseElements(t, items) ==
  LET v == parseValue(t) IN
  IF v = Null THEN Null
  ELSE LET rest == Val(v).rest
           more == Append(items, Val(v).value) IN
       IF rest = <<>> THEN Null
       ELSE IF Head(rest) = "]"
         THEN {[value |-> [json |-> "array", items |-> more], rest |-> Tail(rest)]}
       ELSE IF Head(rest) = "," THEN parseElements(Tail(rest), more)
       ELSE Null

IsNoWhitespace(x) == x \notin Whitespace

\* JSON.parse(s): white space between the tokens is skipped, the whole of s
\* has to be one value; Null when it throws
JSONparse(s) ==
  LET v == parseValue(SelectSeq(s, IsNoWhitespace)) IN
  IF v # Null /\ Val(v).rest = <<>> THEN {Val(v).value} ELSE Null

\* insightsText.match(/\[[\s\S]*\]/): from the first "[" to the last "]"
\* after it; Null without a match
jsonMatch(t) ==
  LET opens == { i \in 1..Len(t) : t[i] = "[" }
      first == CHOOSE i \in opens : \A k \in opens : i <= k
      closes == { j \in 1..Len(t) : t[j] = "]" /\ j > first }
      last == CHOOSE j \in closes : \A k \in closes : k <= j IN
  IF opens = {} THEN Null
  ELSE IF closes = {} THEN Null
  ELSE {SubSeq(t, first, last)}

\* text.split('\n').filter(line => line.trim())
RECURSIVE splitLines(_, _)
splitLines(t, line) ==
  IF t = <<>> THEN (IF line = <<>> THEN <<>> ELSE <<line>>)
  ELSE IF Head(t) = "\n"
    THEN (IF line = <<>> THEN <<>> ELSE <<line>>) \o splitLines(Tail(t), <<>>)
    ELSE splitLines(Tail(t), Append(line, Head(t)))

\* the lines.forEach of parseNaturalLanguageInsights from line i on; current
\* is the insight being built (Null before the first bullet)
RECURSIVE collectInsights(_, _, _, _)
collectInsights(lines, i, current, insights) ==
  IF i > Len(lines)
    THEN (IF current # Null THEN Append(insights, Val(current)) ELSE insights)
    ELSE LET line == lines[i] IN
         IF Head(line) \in Markers
           THEN collectInsights(lines, i + 1,
                  {[type |-> "info", title |-> Tail(line), message |-> line,
                    recommendation |-> "", impact |-> "medium"]},
                  IF current # Null THEN Append(insights, Val(current)) ELSE insights)
           ELSE IF current # Null
             THEN collectInsights(lines, i + 1,
                    {[Val(current) EXCEPT !.message = @ \o <<" ">> \o line]}, insights)
             ELSE collectInsights(lines, i + 1, current, insights)

\* parseNaturalLanguageInsights(text)
parseNaturalLanguageInsights(text) ==
  LET insights == collectInsights(splitLines(text, <<>>), 1, Null, <<>>) IN
  IF Len(insights) > 0 THEN insights
  ELSE <<[type |-> "info", title |-> "AI Analysis", message |-> text,
          recommendation |-> "Review the analysis for financial guidance.",
          impact |-> "medium"]>>

\* the try block of generateFinancialInsights applied to the result of
\* generateCompletion
parseInsights(result) ==
  LET match == jsonMatch(result.text) IN
  IF match # Null
    THEN IF JSONparse(Val(match)) # Null
           THEN [parsed |-> "json", insights |-> Val(JSONparse(Val(match))),
                 provider |-> result.provider]
           ELSE [parsed |-> "raw",
                 insights |->
                   <<[type |-> "info", title |-> "AI Financial Analysis",
                      message |-> result.text,
                      recommendation |-> "Review the analysis above for financial guidance.",
                      impact |-> "medium"]>>,
                 provider |-> result.provider]
    ELSE [parsed |-> "natural", insights |-> parseNaturalLanguageInsights(result.text),
          provider |-> result.provider]

\* generateFinancialInsights(userId, financialData) from the point where
\* generateCompletion has returned: a rejected completion is rethrown
GenerateFinancialInsights ==
  /\ req.route = "generateCompletion"
  /\ req' = [route |-> "generateFinancialInsights", user |-> req.user, id |-> "",
             missing |-> {}, result |-> resp.result]
  /\ Readonly
  /\ IF resp.result = Null
       THEN resp' = [status |-> 0, error |-> resp.error]
       ELSE LET parsed == parseInsights(Val(resp.result)) IN
            resp' = [status |-> 0, error |-> Null, parsed |-> parsed.parsed,
                     insights |-> parsed.insights, provider |-> parsed.provider]

\* generateCompletion has returned one of the texts from one of the providers,
\* or has thrown
InitInsights ==
  /\ cache = <<>>
  /\ pending = <<>>
  /\ bills = {} /\ bill_payments = {}
  /\ lastPut = Null
  /\ scenario = [bills |-> 0, payments |-> 0, rows |-> 0,
                 scope |-> {"ai_tokens"}, ids |-> {}]
  /\ req = [route |-> "generateCompletion", user |-> "A", id |-> "", missing |-> {}]
  /\ \/ \E t \in InsightTexts, i \in 1..Len(Providers) :
          /\ tables = [EmptyTables EXCEPT !["ai_tokens"] =
                         updateLastUsed({TokenRow("A", Providers[i])}, "A", Providers[i], 1)]
          /\ resp = [status |-> 0,
                     called |-> <<[provider |-> Providers[i], ok |-> TRUE, text |-> t,
                                   message |-> "", updated |-> TRUE]>>,
                     result |-> {[text |-> t, provider |-> Providers[i]]},
                     error |-> Null]
     \/ /\ tables = EmptyTables
        /\ resp = [status |-> 0, called |-> <<>>, result |-> Null,
                   error |-> {[message |-> "No AI tokens configured. Please add at least one token in AI Settings.",
                               failures |-> <<>>]}]

InsightsNext == GenerateFinancialInsights

SpecInsights == InitInsights /\ [][InsightsNext]_vars

\* the arrays a text contains: the values of its pieces from a "[" to a "]"
\* that parse as JSON
ContainedArrays(t) ==
  UNION { JSONparse(SubSeq(t, i, j)) :
            i \in { k \in 1..Len(t) : t[k] = "[" },
            j \in { k \in 1..Len(t) : t[k] = "]" } }

\* C15: a text containing a bracketed array that parses as JSON yields that
\* array; every other text yields exactly one insight whose message is the
\* text; the provider is the one that produced the text
C15_ParsedArrayOrSingleRawInsight ==
  (req.route = "generateFinancialInsights" /\ req.result # Null) =>
    LET result == Val(req.result) IN
    /\ resp.provider = result.provider
    /\ IF ContainedArrays(result.text) # {}
         THEN resp.parsed = "json" /\ resp.insights \in ContainedArrays(result.text)
         ELSE /\ resp.parsed # "json"
              /\ Len(resp.insights) = 1
              /\ resp.insights[1].message = result.text

\* ---------------------------------------------------------------------------
\* The AI-token routes and what their responses show of a token
\* ---------------------------------------------------------------------------

\* ORDER BY service
ServiceRank ==
  [sv \in ValidServices |->
     CASE sv = "anthropic" -> 1 [] sv = "groq" -> 2 [] sv = "huggingface" -> 3
       [] sv = "openrouter" -> 4 [] sv = "together" -> 5]

\* the rows in the order of the ranks of their services
RECURSIVE SortByService(_)
SortByService(rows) ==
  IF rows = {} THEN <<>>
  ELSE LET r == CHOOSE x \in rows :
                  \A y \in rows : ServiceRank[Val(x.data.service)] <= ServiceRank[Val(y.data.service)] IN
       <<r>> \o SortByService(rows \ {r})

\* GET /ai-tokens
GetAiTokens(u) ==
  LET tokens == SortByService({ r \in tables["ai_tokens"] : r.user_id = u }) IN
  /\ req' = [route |-> "GET /ai-tokens", user |-> u, id |-> "", missing |-> {}]
  /\ resp' = [status |-> 200,
              tokens |-> [i \in 1..Len(tokens) |->
                            [id |-> tokens[i].id,
                             service |-> Val(tokens[i].data.service),
                             is_active |-> tokens[i].data.is_active = {1},
                             last_used |-> tokens[i].data.last_used,
                             status |-> IF tokens[i].data.is_active = {1}
                                          THEN "active" ELSE "inactive",
                             has_token |-> TRUE]]]
  /\ Readonly

\* GET /ai-tokens/status
GetAiTokenStatus(u) ==
  LET tokens == { r \in tables["ai_tokens"] : r.user_id = u }
      active == { r \in tokens : r.data.is_active = {1} } IN
  /\ req' = [route |-> "GET /ai-tokens/status", user |-> u, id |-> "", missing |-> {}]
  /\ resp' = [status |-> 200,
              total_tokens |-> Cardinality(tokens),
              active_tokens |-> Cardinality(active),
              services |-> [sv \in { Val(r.data.service) : r \in tokens } |->
                              LET token == CHOOSE r \in tokens : r.data.service = {sv} IN
                              [configured |-> TRUE,
                               active |-> token.data.is_active = {1},
                               last_used |-> token.data.last_used]],
              has_free_token |-> \E r \in active :
                                   r.data.service \subseteq {"groq", "huggingface"},
              ready_for_ai |-> Cardinality(active) > 0]
  /\ Readonly

\* tokens of 12, 13 and 19 characters, and bodies the handler rejects
MaskedTokenBodies ==
  { [service |-> {sv}, token |-> {t}] :
      sv \in {"groq", "huggingface"},
      t \in {"gsk_12345678", "gsk_123456789", "gsk_live_0123456789"} }
    \cup { [service |-> {"groq"}, token |-> {"short"}],
           [service |-> {"bogus"}, token |-> {"gsk_123456789"}],
           [service |-> {"groq"}, token |-> Null] }

InitTokens ==
  /\ cache = <<>>
  /\ pending = <<>>
  /\ bills = {} /\ bill_payments = {}
  /\ tables = EmptyTables
  /\ req = NoReq /\ resp = NoResp /\ lastPut = Null
  /\ scenario = [bills |-> 0, payments |-> 0, rows |-> MaxTokens,
                 scope |-> {"ai_tokens"}, ids |-> { "r" \o ToString(i) : i \in 1..MaxTokens }]

TokensNext ==
  \/ \E b \in MaskedTokenBodies : PostAiToken("A", b, "iv1")
  \/ PostAiToken("B", [service |-> {"groq"}, token |-> {"gsk_123456789"}], "iv2")
  \/ \E u \in Users, id \in scenario.ids : ToggleAiToken(u, id)
  \/ \E u \in Users, id \in scenario.ids : DeleteAiToken(u, id)
  \/ \E u \in Users : GetAiTokens(u)
  \/ \E u \in Users : GetAiTokenStatus(u)

SpecTokens == InitTokens /\ [][TokensNext]_vars

TokenRoutes ==
  {"GET /ai-tokens", "POST /ai-tokens", "PUT /ai-tokens/:id/toggle",
   "DELETE /ai-tokens/:id", "GET /ai-tokens/status"}

\* the columns of a row other than token_encrypted
PublicColumns(r) ==
  [id |-> r.id, user_id |-> r.user_id, service |-> r.data.service,
   is_active |-> r.data.is_active, last_used |-> r.data.last_used]

\* the plaintext of the token the user has stored for the service
StoredPlaintext(u, sv) ==
  UNION { decrypt(Val(r.data.token_encrypted), FALSE) :
            r \in { x \in tables["ai_tokens"] : x.user_id = u /\ x.data.service = {sv} } }

\* C17: the responses of the AI-token routes carry no field but the ones
\* listed here; the list and the status are computed from the columns other
\* than token_encrypted; the add/update response shows the first 8 and the
\* last 4 characters of a token of 13 or more characters, eleven asterisks
\* of a shorter one, and besides that the service name only
C17_ResponsesShowMaskedTokenOnly ==
  req.route \in TokenRoutes =>
    /\ DOMAIN resp \subseteq
         {"status", "bills", "payments", "message", "service", "id", "masked_token",
          "is_active", "tokens", "total_tokens", "active_tokens", "services",
          "has_free_token", "ready_for_ai"}
    /\ req.route = "GET /ai-tokens" =>
         LET rows == { PublicColumns(r) : r \in { x \in tables["ai_tokens"] : x.user_id = req.user } } IN
         /\ Len(resp.tokens) = Cardinality(rows)
         /\ \A i \in 1..Len(resp.tokens) :
              /\ DOMAIN resp.tokens[i] =
                   {"id", "service", "is_active", "last_used", "status", "has_token"}
              /\ \E r \in rows :
                   /\ resp.tokens[i].id = r.id /\ r.service = {resp.tokens[i].service}
                   /\ resp.tokens[i].is_active = (r.is_active = {1})
                   /\ resp.tokens[i].last_used = r.last_used
    /\ req.route = "GET /ai-tokens/status" =>
         LET rows == { PublicColumns(r) : r \in { x \in tables["ai_tokens"] : x.user_id = req.user } } IN
         /\ resp.total_tokens = Cardinality(rows)
         /\ resp.active_tokens = Cardinality({ r \in rows : r.is_active = {1} })
         /\ DOMAIN resp.services = UNION { r.service : r \in rows }
         /\ \A sv \in DOMAIN resp.services :
              DOMAIN resp.services[sv] = {"configured", "active", "last_used"}
    /\ (req.route = "POST /ai-tokens" /\ resp.status \in {200, 201}) =>
         \A token \in StoredPlaintext(req.user, resp.service) :
           /\ resp.masked_token =
                IF Len(token) >= 13
                  THEN SubSeq(token, 1, 8) \o "..." \o SubSeq(token, Len(token) - 3, Len(token))
                  ELSE "***********"
           /\ resp.message \in { resp.service \o " token added successfully",
                                 resp.service \o " token updated successfully" }

\* a token of 12 characters was stored: nothing of it is shown
C17_Witness_TwelveCharacters ==
  /\ req.route = "POST /ai-tokens"
  /\ resp.status = 201
  /\ StoredPlaintext(req.user, resp.service) = {"gsk_12345678"}
  /\ resp.masked_token = "***********"

\* ---------------------------------------------------------------------------
\* Derived values after creates, updates and deletes: GET /wealth/networth,
\* GET /income/summary, GET /budget/analysis and the net-worth snapshot
\* ---------------------------------------------------------------------------

MaxFreshRows == 2

\* POST /wealth/networth/snapshot: the totals come from the body, net_worth is
\* their difference, NaN when one is missing and then bound as NULL
PostNetWorthSnapshot(u, b) ==
  LET net_worth == IF b.total_assets = Null \/ b.total_liabilities = Null THEN Null
                   ELSE {Val(b.total_assets) - Val(b.total_liabilities)}
      date == IF b.snapshot_date = Null THEN {<<2024, 1, 15>>} ELSE b.snapshot_date IN
  /\ req' = [route |-> "POST /wealth/networth/snapshot", user |-> u, id |-> "",
             missing |-> Missing(b, {"total_assets", "total_liabilities"})]
  /\ UNCHANGED <<bills, bill_payments, lastPut, scenario, cache, pending>>
  /\ IF b.total_assets = Null \/ b.total_liabilities = Null \/ net_worth = Null
       THEN Respond(500) /\ UNCHANGED tables
       ELSE /\ RowCount < scenario.rows
            /\ \E id \in scenario.ids :
                 /\ \A r \in tables["net_worth_snapshots"] : r.id # id
                 /\ tables' = [tables EXCEPT !["net_worth_snapshots"] = @ \cup
                      {[id |-> id, user_id |-> u, parent |-> Null,
                        data |-> [total_assets |-> b.total_assets,
                                  total_liabilities |-> b.total_liabilities,
                                  net_worth |-> net_worth, snapshot_date |-> date]]}]
            /\ Respond(201)

SnapshotBodies ==
  { [total_assets |-> {3000}, total_liabilities |-> {500}, snapshot_date |-> Null],
    [total_assets |-> Null, total_liabilities |-> {500}, snapshot_date |-> Null] }

\* the bodies of the PUT /income/:id requests: a raise, and a deactivation
FreshIncomeUpdates ==
  { [Sample("income_sources") EXCEPT !.amount = {2400}],
    [Sample("income_sources") EXCEPT !.is_active = {FALSE}] }

\* the month the budget analysis is asked in
FreshMonth == <<2024, 1>>

\* the ids uuidv4 hands out; an id is unique within its table
FreshIds == Ids

InitFresh ==
  /\ cache = <<>>
  /\ pending = <<>>
  /\ bills = {} /\ bill_payments = {}
  /\ tables = EmptyTables
  /\ req = NoReq /\ resp = NoResp /\ lastPut = Null
  /\ scenario = [bills |-> 0, payments |-> 0, rows |-> MaxFreshRows,
                 scope |-> {"accounts", "retirement_accounts", "assets",
                            "income_sources", "transactions", "net_worth_snapshots"},
                 ids |-> FreshIds]

FreshNext ==
  \/ \E b \in {Sample("accounts"), Sample2("accounts")} : PostAccount("A", b)
  \/ PostAccount("B", Sample("accounts"))
  \/ \E id \in FreshIds : PutAccount("A", id, Sample2("accounts"))
  \/ \E u \in Users, id \in FreshIds : DeleteAccount(u, id)
  \/ PostRetirement("A", Sample("retirement_accounts"))
  \/ \E id \in FreshIds : PutRetirement("A", id, Sample2("retirement_accounts"))
  \/ \E id \in FreshIds : DeleteRetirement("A", id)
  \/ PostAsset("A", Sample("assets"))
  \/ \E id \in FreshIds : PutAsset("A", id, Sample2("assets"))
  \/ \E id \in FreshIds : DeleteAsset("A", id)
  \/ PostIncome("A", Sample("income_sources"))
  \/ \E id \in FreshIds, b \in FreshIncomeUpdates : PutIncome("A", id, b)
  \/ \E id \in FreshIds : DeleteIncome("A", id)
  \/ \E b \in BudgetBodies : PostTransaction("A", b)
  \/ \E id \in FreshIds : PutTransaction("A", id, Sample2("transactions"))
  \/ \E id \in FreshIds : DeleteTransaction("A", id)
  \/ \E b \in SnapshotBodies : PostNetWorthSnapshot("A", b)
  \/ \E u \in Users : GetNetWorth(u)
  \/ \E u \in Users : GetIncomeSummary(u)
  \/ \E u \in Users : GetBudgetAnalysis(u, FreshMonth)

SpecFresh == InitFresh /\ [][FreshNext]_vars

\* the user's rows of a table as they are stored now
StoredNow(t, u) == { r \in tables[t] : r.user_id = u }

\* the rows of the user's transactions of one type dated in the month
StoredInMonth(u, type, month) ==
  { r \in StoredNow("transactions", u) :
      r.data.type = {type} /\ SubSeq(Val(r.data.date), 1, 2) = month }

\* what the three GET routes answer is the value of the rows stored now
DerivedFromStoredRows ==
  /\ req.route = "GET /wealth/networth" =>
       resp.net_worth =
         SumOf([h \in OwnHoldings(req.user) |-> Worth(h[1], h[2])], OwnHoldings(req.user))
  /\ req.route = "GET /income/summary" =>
       LET active == { r \in StoredNow("income_sources", req.user) : r.data.is_active = {1} } IN
       /\ resp.active_sources_count = Cardinality(active)
       /\ resp.total_monthly =
            SumOf([r \in active |->
                     MonthlyEquivalent(Val(r.data.amount), Val(r.data.frequency))], active)
  /\ req.route = "GET /budget/analysis" =>
       LET income == StoredInMonth(req.user, "income", FreshMonth)
           expenses == StoredInMonth(req.user, "expense", FreshMonth) IN
       /\ resp.total_income = SumOf([r \in income |-> Val(r.data.amount)], income)
       /\ resp.total_expenses = SumOf([r \in expenses |-> Val(r.data.amount)], expenses)

\* a step that stores a row with a net_worth column is a snapshot request
NetWorthStoredBySnapshotOnly ==
  (\E t \in TableNames : \E r \in tables'[t] \ tables[t] : "net_worth" \in DOMAIN r.data)
    => req'.route = "POST /wealth/networth/snapshot"

\* C18: after any sequence of creates, updates and deletes, GET
\* /wealth/networth, GET /income/summary and GET /budget/analysis answer the
\* totals of the rows stored at that moment, and only POST
\* /wealth/networth/snapshot stores a net-worth value
C18_DerivedValuesAreCurrent ==
  []DerivedFromStoredRows /\ [][NetWorthStoredBySnapshotOnly]_vars

\* the income summary after a PUT raised the only source to 2400 a month
C18_Witness_SummaryAfterUpdate ==
  /\ req.route = "GET /income/summary"
  /\ resp.total_monthly = 12 * 2400
  /\ \E r \in StoredNow("income_sources", req.user) : r.data.amount = {2400}

\* ---------------------------------------------------------------------------
\* services/scheduler.js: runDailyAnalysis and runFiveHourScan
\* ---------------------------------------------------------------------------

MaxHistory == 1

\* the ai_scheduler_config row of a user
ConfigRow(u, daily, fiveHour) ==
  [id |-> "c-" \o u, user_id |-> u, parent |-> Null,
   data |-> [daily_enabled |-> {daily}, five_hour_enabled |-> {fiveHour}]]

\* getActiveUsers(): the users with an active token whose configuration has a
\* flag set or is missing; a missing flag counts as set
getActiveUsers ==
  { [user_id |-> u,
     daily_enabled |->
       IF \E c \in tables["ai_scheduler_config"] : c.user_id = u
         THEN Val((CHOOSE c \in tables["ai_scheduler_config"] : c.user_id = u).data.daily_enabled)
         ELSE 1,
     five_hour_enabled |->
       IF \E c \in tables["ai_scheduler_config"] : c.user_id = u
         THEN Val((CHOOSE c \in tables["ai_scheduler_config"] :
                     c.user_id = u).data.five_hour_enabled)
         ELSE 1] :
      u \in { x \in Users :
                /\ \E t \in tables["ai_tokens"] : t.user_id = x /\ t.data.is_active = {1}
                /\ \A c \in tables["ai_scheduler_config"] :
                     c.user_id = x =>
                       c.data.daily_enabled = {1} \/ c.data.five_hour_enabled = {1} } }

\* the orders in which the SELECT, which has no ORDER BY, may list the rows
Orderings(S) ==
  { q \in [1..Cardinality(S) -> S] : \A i, j \in 1..Cardinality(S) : i # j => q[i] # q[j] }

\* what befalls the steps taken for one user
StepOutcomes == {"fetch fails", "llm fails", "save fails", "all succeed"}

\* the loop goes on with the next user when a step has thrown
AbortAfterFailure(users, i) == Len(users) + 1

NextUserAfterFailure(users, i) == i + 1

\* saveInsights(userId, insightType, insights): the row INSERT adds
InsightRow(history, u, type, insights) ==
  [id |-> "h" \o ToString(Cardinality(history) + 1), user_id |-> u, parent |-> Null,
   data |-> [insight_type |-> type, insights_json |-> insights]]

\* the for loop of runDailyAnalysis (type "daily") and runFiveHourScan (type
\* "5hour") from users[i] on; batch holds the ai_tokens rows, the history
\* rows and what was done for each user so far
RECURSIVE RunBatch(_, _, _, _, _, _)
RunBatch(users, i, type, outcome, now, batch) ==
  IF i > Len(users) THEN batch
  ELSE
    LET user == users[i]
        u == user.user_id
        enabled == IF type = "daily" THEN user.daily_enabled # 0
                   ELSE user.five_hour_enabled # 0
        tokens == getUserTokens(u, FALSE)
        call == [p \in DOMAIN tokens |->
                   IF outcome[u] = "llm fails"
                     THEN [ok |-> FALSE, text |-> <<>>, message |-> "timeout of 30000ms exceeded"]
                     ELSE [ok |-> TRUE, text |-> <<" ", "Save", "\n">>, message |-> ""]]
        update == [p \in DOMAIN tokens |-> TRUE]
        completion == RunProviders(1, u, tokens, call, update, now,
                        [rows |-> batch.tokens, called |-> <<>>,
                         lastError |-> Null, result |-> Null])
        insights ==
          IF type = "daily"
            THEN LET parsed == parseInsights(Val(completion.result)) IN
                 [insights |-> parsed.insights, provider |-> parsed.provider]
            ELSE [insights |-> <<[type |-> "info", title |-> "5-Hour Scan Results",
                                  message |-> Val(completion.result).text,
                                  impact |-> "medium"]>>,
                  provider |-> Val(completion.result).provider]
        step(fetched, generated, saved) ==
          [user |-> u, enabled |-> enabled, fetched |-> fetched,
           generated |-> generated, saved |-> saved]
    IN
    IF ~enabled
      THEN RunBatch(users, i + 1, type, outcome, now,
             [batch EXCEPT !.steps = Append(@, step(FALSE, FALSE, FALSE))])
    ELSE IF outcome[u] = "fetch fails"
      THEN RunBatch(users, NextUserAfterFailure(users, i), type, outcome, now,
             [batch EXCEPT !.steps = Append(@, step(FALSE, FALSE, FALSE))])
    ELSE IF completion.result = Null
      THEN RunBatch(users, NextUserAfterFailure(users, i), type, outcome, now,
             [batch EXCEPT !.tokens = completion.rows,
                           !.steps = Append(@, step(TRUE, FALSE, FALSE))])
    ELSE IF outcome[u] = "save fails"
      THEN RunBatch(users, NextUserAfterFailure(users, i), type, outcome, now,
             [batch EXCEPT !.tokens = completion.rows,
                           !.steps = Append(@, step(TRUE, TRUE, FALSE))])
    ELSE RunBatch(users, i + 1, type, outcome, now,
           [batch EXCEPT !.tokens = completion.rows,
                         !.history = @ \cup {InsightRow(@, u, type, insights)},
                         !.steps = Append(@, step(TRUE, TRUE, TRUE))])

\* one run of the batch; listed tells whether getActiveUsers resolved
RunScheduled(route, type, listed, users, outcome, now) ==
  LET batch == RunBatch(users, 1, type, outcome, now,
                 [tokens |-> tables["ai_tokens"],
                  history |-> tables["ai_insights_history"], steps |-> <<>>]) IN
  /\ Cardinality(tables["ai_insights_history"]) < MaxHistory
  /\ req' = [route |-> route, user |-> "", id |-> "", missing |-> {}]
  /\ UNCHANGED <<bills, bill_payments, lastPut, scenario, cache, pending>>
  /\ IF ~listed
       THEN resp' = [status |-> 0, users |-> <<>>, steps |-> <<>>] /\ UNCHANGED tables
       ELSE /\ resp' = [status |-> 0, users |-> users, steps |-> batch.steps]
            /\ tables' = [tables EXCEPT !["ai_tokens"] = batch.tokens,
                                        !["ai_insights_history"] = batch.history]

\* runDailyAnalysis()
RunDailyAnalysis(listed, users, outcome, now) ==
  RunScheduled("runDailyAnalysis", "daily", listed, users, outcome, now)

\* runFiveHourScan()
RunFiveHourScan(listed, users, outcome, now) ==
  RunScheduled("runFiveHourScan", "5hour", listed, users, outcome, now)

\* both users hold a groq token; A has no configuration or one with a single
\* flag set, B has none, one with both flags set or one with both cleared
InitScheduler ==
  /\ cache = <<>>
  /\ pending = <<>>
  /\ bills = {} /\ bill_payments = {}
  /\ req = NoReq /\ resp = NoResp /\ lastPut = Null
  /\ scenario = [bills |-> 0, payments |-> 0, rows |-> 0,
                 scope |-> {"ai_tokens", "ai_scheduler_config", "ai_insights_history"},
                 ids |-> {}]
  /\ \E configA \in {{}, {ConfigRow("A", 1, 0)}, {ConfigRow("A", 0, 1)}},
        configB \in {{}, {ConfigRow("B", 1, 1)}, {ConfigRow("B", 0, 0)}} :
       tables = [EmptyTables EXCEPT
                   !["ai_tokens"] = {TokenRow("A", "groq"), TokenRow("B", "groq")},
                   !["ai_scheduler_config"] = configA \cup configB]

SchedulerNext ==
  \/ \E listed \in BOOLEAN, users \in Orderings(getActiveUsers),
        outcome \in [Users -> StepOutcomes], now \in Timestamps :
       RunDailyAnalysis(listed, users, outcome, now)
  \/ \E listed \in BOOLEAN, users \in Orderings(getActiveUsers),
        outcome \in [Users -> StepOutcomes], now \in Timestamps :
       RunFiveHourScan(listed, users, outcome, now)
  \/ \E sv \in {"groq"} : ToggleAiToken("B", "B-" \o sv)

SpecScheduler == InitScheduler /\ [][SchedulerNext]_vars

\* the type a run stores its rows under
RunType == [r \in {"runDailyAnalysis", "runFiveHourScan"} |->
              IF r = "runDailyAnalysis" THEN "daily" ELSE "5hour"]

\* C19: the users are handled in list order, one step record each; a user
\* whose flag is set and whose steps succeed gets exactly one row of the run's
\* type, whatever happened to the users before, every other user gets none,
\* and the rows stored before the run stay
C19_BatchContinuesPastFailures ==
  [][ req'.route \in {"runDailyAnalysis", "runFiveHourScan"} =>
        LET users == resp'.users
            steps == resp'.steps
            added == tables'["ai_insights_history"] \ tables["ai_insights_history"] IN
        /\ tables["ai_insights_history"] \subseteq tables'["ai_insights_history"]
        /\ Len(steps) = Len(users)
        /\ \A i \in 1..Len(users) :
             /\ steps[i].user = users[i].user_id
             /\ steps[i].enabled =
                  (IF req'.route = "runDailyAnalysis" THEN users[i].daily_enabled = 1
                   ELSE users[i].five_hour_enabled = 1)
             /\ Cardinality({ r \in added : r.user_id = users[i].user_id
                                            /\ r.data.insight_type = RunType[req'.route] })
                  = IF steps[i].enabled /\ steps[i].fetched /\ steps[i].generated
                       /\ steps[i].saved
                      THEN 1 ELSE 0
        /\ \A r \in added :
             \E i \in 1..Len(users) :
               r.user_id = users[i].user_id /\ r.data.insight_type = RunType[req'.route]
    ]_vars

\* the first user's LLM call failed, the second user's row was saved
C19_Witness_SecondUserSaved ==
  /\ req.route = "runDailyAnalysis"
  /\ Len(resp.steps) = 2
  /\ resp.steps[1].enabled /\ resp.steps[1].fetched /\ ~resp.steps[1].generated
  /\ resp.steps[2].saved
  /\ \E r \in tables["ai_insights_history"] :
       r.user_id = resp.steps[2].user /\ r.data.insight_type = "daily"
  /\ \A r \in tables["ai_insights_history"] : r.user_id # resp.steps[1].user

\* ---------------------------------------------------------------------------
\* services/aiService.js: AIService.getCompletion
\* ---------------------------------------------------------------------------

MaxRetriesArg == 3

\* maxRetries = 3 of the parameter destructuring
DefaultMaxRetries == 3

\* config.performance.retryDelay, in milliseconds
retryDelay == 1000

\* config.performance.caching.ttl, in seconds
ttl == 3600

\* config.performance.caching.maxSize
maxSize == 100

\* the agents of config.agents that the calls name, and one it does not have
Agents == {"chatAssistant", "unknownAgent"}

ConfiguredAgents == {"chatAssistant"}

\* the instants Date.now() shows when a call of getCompletion starts
ClockTimes == {0, ttl * 1000, 2 * ttl * 1000}

\* the most attempts a call of the model can make
MostAttempts == IF MaxRetriesArg > DefaultMaxRetries THEN MaxRetriesArg ELSE DefaultMaxRetries

\* content.substring(0, 100)
substring100(content) ==
  IF Len(content) <= 100 THEN content ELSE SubSeq(content, 1, 100)

\* getCacheKey(agent, messages, context): the JSON text of {agent, lastMessage,
\* contextHash}, as its three members; messages are given by their contents
\* and a context by its entries in insertion order, which JSON.stringify keeps
getCacheKey(agent, messages, context) ==
  [agent |-> agent,
   lastMessage |-> IF messages = <<>> THEN Null
                   ELSE {substring100(messages[Len(messages)])},
   contextHash |-> context]

\* the message array sent to the provider: the system prompt built from the
\* agent and the context, then the messages
fullMessages(agent, messages, context) ==
  <<[role |-> "system", agent |-> agent, context |-> context]>> \o messages

\* the conversation and the context of the calls that exercise the retry loop
Conversation == <<"How much did I spend?">>

NoContext == <<>>

\* this.cache.get(cacheKey)
cacheGet(key) ==
  { cache[i].value : i \in { j \in DOMAIN cache : cache[j].key = key } }

\* this.cache.set(cacheKey, value): a key the Map holds keeps its place
cacheSet(entries, key, value) ==
  IF \E i \in DOMAIN entries : entries[i].key = key
    THEN [i \in DOMAIN entries |->
            IF entries[i].key = key THEN [key |-> key, value |-> value] ELSE entries[i]]
    ELSE Append(entries, [key |-> key, value |-> value])

\* the size limit with the newest key deleted instead of the first
limitCacheSizeDroppingNewest(entries) ==
  IF Len(entries) > maxSize THEN SubSeq(entries, 1, Len(entries) - 1) ELSE entries

\* the size limit: the first key is deleted once the Map exceeds maxSize
limitCacheSize(entries) ==
  IF Len(entries) > maxSize THEN Tail(entries) ELSE entries

\* the response callProvider resolves with at the attempt-th call (from 0):
\* the provider's answer to the message array it was sent
ProviderResponse(sent, attempt) ==
  [content |-> <<"answer to", sent>>, provider |-> "openai", call |-> attempt + 1]

\* the message of the error callProvider rejects with at the attempt-th call
ProviderError(attempt) == "provider error " \o ToString(attempt + 1)

\* the delay slept after the failure of the attempt-th call (from 0)
retryBackoffFixed(attempt) == retryDelay

retryBackoff(attempt) == retryDelay * (attempt + 1)

\* the for loop of getCompletion from the given attempt on; run holds the
\* calls made, the delays slept, the last error and the response returned
RECURSIVE retryLoop(_, _, _, _, _)
retryLoop(attempt, maxRetries, sent, outcome, run) ==
  IF ~(attempt < maxRetries) THEN run
  ELSE IF outcome[attempt + 1]
    THEN [run EXCEPT !.calls = Append(@, attempt + 1),
                     !.response = {ProviderResponse(sent, attempt)}]
    ELSE retryLoop(attempt + 1, maxRetries, sent, outcome,
           [run EXCEPT !.calls = Append(@, attempt + 1),
                       !.lastError = {ProviderError(attempt)},
                       !.sleeps = IF attempt < maxRetries - 1
                                    THEN Append(@, retryBackoff(attempt))
                                    ELSE @])

RECURSIVE SumSeq(_)
SumSeq(q) == IF q = <<>> THEN 0 ELSE Head(q) + SumSeq(Tail(q))

\* getCompletion({agent, messages, context, useCache, maxRetries}): arg is the
\* maxRetries passed, if any; outcome tells which calls of the provider
\* resolve; now is Date.now() at the start
GetCompletion(agent, messages, context, useCache, arg, outcome, now) ==
  LET maxRetries == IF arg = Null THEN DefaultMaxRetries ELSE Val(arg)
      key == getCacheKey(agent, messages, context)
      cached == cacheGet(key)
      hit == useCache /\ cached # Null /\ now - Val(cached).timestamp < ttl * 1000
      run == retryLoop(0, maxRetries, fullMessages(agent, messages, context), outcome,
               [calls |-> <<>>, sleeps |-> <<>>, lastError |-> Null, response |-> Null])
      answer(calls, sleeps, response, errors) ==
        [status |-> 0, calls |-> calls, sleeps |-> sleeps,
         response |-> response, errors |-> errors]
  IN
  /\ \A i \in DOMAIN cache : cache[i].value.timestamp <= now
  /\ req' = [route |-> "getCompletion", user |-> "", id |-> agent, missing |-> {},
             messages |-> messages, context |-> context, now |-> now,
             useCache |-> useCache, maxRetries |-> maxRetries]
  /\ UNCHANGED <<bills, bill_payments, tables, lastPut, scenario, pending>>
  /\ IF hit
       THEN /\ resp' = answer(<<>>, <<>>, {Val(cached).response}, <<>>)
            /\ UNCHANGED cache
     ELSE IF agent \notin ConfiguredAgents
       THEN /\ resp' = answer(<<>>, <<>>, Null, <<"Unknown agent: " \o agent>>)
            /\ UNCHANGED cache
     ELSE IF run.response # Null
       THEN /\ resp' = answer(run.calls, run.sleeps, run.response, <<>>)
            /\ cache' = IF useCache
                          THEN limitCacheSize(
                                 cacheSet(cache, key,
                                          [response |-> Val(run.response),
                                           timestamp |-> now + SumSeq(run.sleeps)]))
                          ELSE cache
     ELSE /\ resp' = answer(run.calls, run.sleeps, Null,
                       <<IF run.lastError = Null
                           THEN "Cannot read properties of undefined (reading 'message')"
                           ELSE "AI request failed after " \o ToString(maxRetries)
                                  \o " attempts: " \o Val(run.lastError)>>)
          /\ UNCHANGED cache

InitCompletion ==
  /\ cache = <<>>
  /\ pending = <<>>
  /\ bills = {} /\ bill_payments = {} /\ tables = EmptyTables
  /\ req = NoReq /\ resp = NoResp /\ lastPut = Null
  /\ scenario = [bills |-> 0, payments |-> 0, rows |-> 0, scope |-> {}, ids |-> {}]

CompletionNext ==
  \E agent \in Agents, useCache \in BOOLEAN,
     arg \in {Null} \cup {{n} : n \in 0..MaxRetriesArg},
     outcome \in [1..MostAttempts -> BOOLEAN], now \in ClockTimes :
    GetCompletion(agent, Conversation, NoContext, useCache, arg, outcome, now)

SpecCompletion == InitCompletion /\ [][CompletionNext]_vars

\* a call of getCompletion that got as far as the retry loop
ReachedRetryLoop ==
  /\ req.route = "getCompletion"
  /\ ~(resp.calls = <<>> /\ resp.response # Null)
  /\ req.id \in ConfiguredAgents

MaxInFlight == 2

Slots == 1..MaxInFlight

\* the slots whose request has not arrived yet
Free(k) == k \notin DOMAIN pending

\* pending with the request of slot k added or replaced
Put(k, r) == [j \in DOMAIN pending \cup {k} |-> IF j = k THEN r ELSE pending[j]]

\* the number of statements the database has executed for the requests in flight
Executed == Cardinality({ k \in DOMAIN pending : pending[k].order > 0 })

\* the table a PUT route updates
PutTable(route) ==
  IF route = "PUT /transactions/:id" THEN "transactions" ELSE "accounts"

\* the row the requests are about, as stored before them
StoredBefore(t) ==
  IF t = "transactions"
    THEN [type |-> {"expense"}, amount |-> {40}, category |-> {"food"},
          description |-> {"lunch"}, date |-> {<<2024, 1, 15>>}]
    ELSE [name |-> {"main"}, type |-> {"checking"}, balance |-> {1000},
          credit_limit |-> Null, interest_rate |-> Null, due_date |-> Null,
          institution |-> {"First Bank"}]

\* req.body of the PUT requests: two bodies the table accepts, the second
\* without its optional columns, and one that lacks the type
ConcurrentPutBodies(t) ==
  IF t = "transactions"
    THEN { [type |-> {"income"}, amount |-> {5000}, category |-> {"salary"},
            description |-> {"May"}, date |-> {<<2024, 2, 15>>}],
           [type |-> {"expense"}, amount |-> {70}, category |-> {"fuel"},
            description |-> Null, date |-> {<<2024, 1, 15>>}],
           [type |-> Null, amount |-> {70}, category |-> {"fuel"},
            description |-> Null, date |-> {<<2024, 1, 15>>}] }
    ELSE { [name |-> {"card"}, type |-> {"credit_card"}, balance |-> {0 - 500},
            credit_limit |-> {3000}, interest_rate |-> {19}, due_date |-> {15},
            institution |-> {"Card Co"}],
           [name |-> {"rainy"}, type |-> {"savings"}, balance |-> {2000},
            credit_limit |-> Null, interest_rate |-> Null, due_date |-> Null,
            institution |-> Null],
           [name |-> {"rainy"}, type |-> Null, balance |-> {2000},
            credit_limit |-> Null, interest_rate |-> Null, due_date |-> Null,
            institution |-> Null] }

\* the PUT requests sent: by the owner to the row, with each body; by the other
\* user to the row; by the owner to an id no row has
ConcurrentPuts ==
  UNION { { [route |-> route, user |-> "A", id |-> "r1", body |-> b] :
              b \in ConcurrentPutBodies(PutTable(route)) }
          \cup { [route |-> route, user |-> u, id |-> id,
                  body |-> CHOOSE b \in ConcurrentPutBodies(PutTable(route)) :
                             SqlOk(PutTable(route), b) /\ b.description # Null] :
                   u \in {"B"}, id \in {"r1"} }
          : route \in {"PUT /transactions/:id"} }
  \cup
  UNION { { [route |-> route, user |-> "A", id |-> "r1", body |-> b] :
              b \in ConcurrentPutBodies(PutTable(route)) }
          \cup { [route |-> route, user |-> "A", id |-> "r9",
                  body |-> CHOOSE b \in ConcurrentPutBodies(PutTable(route)) :
                             SqlOk(PutTable(route), b) /\ b.institution # Null] }
          : route \in {"PUT /wealth/accounts/:id"} }

\* UPDATE t SET every column = ? : the row after the statement
SetSuppliedColumns(row, data) ==
  [row EXCEPT !.data = [c \in DOMAIN data |-> IF data[c] = Null THEN row.data[c] ELSE data[c]]]

SetAllColumns(row, data) == [row EXCEPT !.data = data]

\* the handler up to db.run: the statement is handed to the database
PutReceived(k, r) ==
  /\ Free(k)
  /\ pending' = Put(k, [route |-> r.route, user |-> r.user, id |-> r.id, body |-> r.body,
                        pc |-> "queued", order |-> 0, err |-> FALSE, changes |-> 0,
                        status |-> 0])
  /\ req' = [route |-> r.route, user |-> r.user, id |-> r.id,
             missing |-> Missing(r.body, NotNullCols(PutTable(r.route)))]
  /\ UNCHANGED <<bills, bill_payments, tables, resp, lastPut, scenario, cache>>

\* the database executes the UPDATE of slot k, one statement at a time
PutExecuted(k) ==
  /\ k \in DOMAIN pending /\ pending[k].pc = "queued"
  /\ pending[k].route \in {"PUT /transactions/:id", "PUT /wealth/accounts/:id"}
  /\ LET p == pending[k]
         t == PutTable(p.route)
         matched == Owned(t, p.id, p.user)
         err == matched # {} /\ ~SqlOk(t, p.body) IN
     /\ tables' = IF err THEN tables
                  ELSE [tables EXCEPT ![t] =
                          (@ \ matched) \cup { SetAllColumns(r, p.body) : r \in matched }]
     /\ pending' = Put(k, [p EXCEPT !.pc = "executed", !.order = Executed + 1,
                                    !.err = err,
                                    !.changes = IF err THEN 0 ELSE Cardinality(matched)])
  /\ UNCHANGED <<bills, bill_payments, req, resp, lastPut, scenario, cache>>

\* the callback of db.run answers the request
PutAnswered(k) ==
  /\ k \in DOMAIN pending /\ pending[k].pc = "executed"
  /\ pending[k].route \in {"PUT /transactions/:id", "PUT /wealth/accounts/:id"}
  /\ LET p == pending[k]
         status == IF p.err THEN 500 ELSE IF p.changes = 0 THEN 404 ELSE 200 IN
     /\ pending' = Put(k, [p EXCEPT !.pc = "answered", !.status = status])
     /\ req' = [route |-> p.route, user |-> p.user, id |-> p.id,
                missing |-> Missing(p.body, NotNullCols(PutTable(p.route)))]
     /\ Respond(status)
  /\ UNCHANGED <<bills, bill_payments, tables, lastPut, scenario, cache>>

InitConcurrentPut ==
  /\ cache = <<>>
  /\ pending = <<>>
  /\ bills = {} /\ bill_payments = {}
  /\ req = NoReq /\ resp = NoResp /\ lastPut = Null
  /\ scenario = [bills |-> 0, payments |-> 0, rows |-> 0,
                 scope |-> {"transactions", "accounts"}, ids |-> {}]
  /\ tables = [EmptyTables EXCEPT
                 !["transactions"] = {[id |-> "r1", user_id |-> "A", parent |-> Null,
                                       data |-> StoredBefore("transactions")]},
                 !["accounts"] = {[id |-> "r1", user_id |-> "A", parent |-> Null,
                                   data |-> StoredBefore("accounts")]}]

ConcurrentPutNext ==
  \/ \E k \in Slots, r \in ConcurrentPuts : PutReceived(k, r)
  \/ \E k \in Slots : PutExecuted(k)
  \/ \E k \in Slots : PutAnswered(k)

SpecConcurrentPut == InitConcurrentPut /\ [][ConcurrentPutNext]_vars

\* the requests in flight whose UPDATE has run on the row of table t: sent by
\* its owner with a body the table accepts
Writers(t) ==
  { k \in DOMAIN pending :
      /\ PutTable(pending[k].route) = t /\ pending[k].id = "r1"
      /\ pending[k].user = "A" /\ SqlOk(t, pending[k].body)
      /\ pending[k].pc # "queued" }

\* C21: the row equals, column by column, the body of the request whose
\* UPDATE ran last (the stored row as long as none has run), and every
\* answered request whose UPDATE ran on the row was answered with 200
C21_LastUpdateWinsWhole ==
  \A t \in {"transactions", "accounts"} :
    \A row \in tables[t] :
      /\ Writers(t) = {} => row.data = StoredBefore(t)
      /\ \A k \in Writers(t) :
           /\ (\A j \in Writers(t) : pending[j].order <= pending[k].order)
                => row.data = pending[k].body
           /\ pending[k].pc = "answered" => pending[k].status = 200

\* two PUT requests with different bodies were in flight together, both were
\* answered, and the one that arrived first had its UPDATE run last
C21_Witness_TwoPutsOneRow ==
  \E j, k \in DOMAIN pending :
    /\ j < k
    /\ j \in Writers("transactions") /\ k \in Writers("transactions")
    /\ pending[j].body # pending[k].body
    /\ pending[j].pc = "answered" /\ pending[k].pc = "answered"
    /\ pending[j].order > pending[k].order
    /\ pending[k].body.description # Null
    /\ \A row \in tables["transactions"] : row.data = pending[j].body

\* ---------------------------------------------------------------------------
\* Opportunity status
\* ---------------------------------------------------------------------------

\* C22: every stored opportunity has one of the four statuses, and the one a
\* POST has just stored is pending
C22_OpportunityStatusInLifecycle ==
  /\ \A r \in tables["opportunities"] :
       \E st \in OpportunityStatuses : r.data.status = {st}
  /\ (req.route = "POST /opportunities" /\ resp.status = 201) =>
       \E r \in tables["opportunities"] : r.data.status = {"pending"}

\* ---------------------------------------------------------------------------
\* Requests in flight: POST /ai-tokens
\* ---------------------------------------------------------------------------

\* req.body of the POST /ai-tokens requests in flight
ConcurrentTokenBodies ==
  { [service |-> {"groq"}, token |-> {t}] : t \in Tokens }
    \cup { [service |-> {"groq"}, token |-> {"short"}] }

\* whether the ai_tokens table, whose CREATE TABLE is not among the sources,
\* has a UNIQUE(user_id, service) constraint: fixed by the schema in use
UniqueUserService == scenario.unique

\* the handler up to db.get: validation, encryption, SELECT handed over
PostAiTokenReceived(k, u, b, iv) ==
  LET invalid == \/ Falsy("service", b.service) \/ Falsy("token", b.token)
                 \/ ~(b.service \subseteq ValidServices)
                 \/ Len(Val(b.token)) < 10 IN
  /\ Free(k)
  /\ pending' = Put(k, [route |-> "POST /ai-tokens", user |-> u, body |-> b,
                        encryptedToken |-> IF invalid THEN Null
                                           ELSE encrypt(Val(b.token), iv),
                        pc |-> IF invalid THEN "answered" ELSE "selecting",
                        order |-> 0, status |-> IF invalid THEN 400 ELSE 0])
  /\ req' = [route |-> "POST /ai-tokens", user |-> u, id |-> "",
             missing |-> Missing(b, {"service", "token"})]
  /\ IF invalid THEN Respond(400) ELSE UNCHANGED resp
  /\ UNCHANGED <<bills, bill_payments, tables, lastPut, scenario, cache>>

\* SELECT id FROM ai_tokens WHERE user_id = ? AND service = ? runs and its
\* callback hands the UPDATE or the INSERT to the database
PostAiTokenSelected(k) ==
  /\ k \in DOMAIN pending /\ pending[k].pc = "selecting"
  /\ LET p == pending[k]
         existing == { r \in tables["ai_tokens"] :
                         r.user_id = p.user /\ r.data.service = p.body.service } IN
     pending' = Put(k, [p EXCEPT !.pc = IF existing # {} THEN "updating" ELSE "inserting"])
  /\ UNCHANGED <<bills, bill_payments, tables, req, resp, lastPut, scenario, cache>>

\* the UPDATE or the INSERT runs and its callback answers the request
PostAiTokenWritten(k) ==
  /\ k \in DOMAIN pending /\ pending[k].pc \in {"updating", "inserting"}
  /\ LET p == pending[k]
         existing == { r \in tables["ai_tokens"] :
                         r.user_id = p.user /\ r.data.service = p.body.service }
         err == p.pc = "inserting" /\ UniqueUserService /\ existing # {}
         status == IF err THEN 500 ELSE IF p.pc = "updating" THEN 200 ELSE 201 IN
     /\ tables' =
          IF err THEN tables
          ELSE IF p.pc = "updating"
            THEN [tables EXCEPT !["ai_tokens"] =
                    (@ \ existing) \cup
                    { [r EXCEPT !.data.token_encrypted = p.encryptedToken,
                                !.data.is_active = {1}] : r \in existing }]
            ELSE [tables EXCEPT !["ai_tokens"] = @ \cup
                    {[id |-> "n" \o ToString(k), user_id |-> p.user, parent |-> Null,
                      data |-> [service |-> p.body.service,
                                token_encrypted |-> p.encryptedToken,
                                is_active |-> {1}, last_used |-> Null]]}]
     /\ pending' = Put(k, [p EXCEPT !.pc = "answered", !.status = status,
                                    !.order = IF err THEN 0 ELSE Executed + 1])
     /\ req' = [route |-> "POST /ai-tokens", user |-> p.user, id |-> "",
                missing |-> {}]
     /\ Respond(status)
  /\ UNCHANGED <<bills, bill_payments, lastPut, scenario, cache>>

InitConcurrentTokens ==
  /\ cache = <<>>
  /\ pending = <<>>
  /\ bills = {} /\ bill_payments = {}
  /\ req = NoReq /\ resp = NoResp /\ lastPut = Null
  /\ \E unique \in BOOLEAN :
       scenario = [bills |-> 0, payments |-> 0, rows |-> 0, scope |-> {"ai_tokens"},
                   ids |-> {}, unique |-> unique]
  /\ \E stored \in {{}, {TokenRow("A", "groq")}} :
       tables = [EmptyTables EXCEPT !["ai_tokens"] = stored]

ConcurrentTokensNext ==
  \/ \E k \in Slots, u \in Users, b \in ConcurrentTokenBodies :
       PostAiTokenReceived(k, u, b, "iv1")
  \/ \E k \in Slots : PostAiTokenSelected(k)
  \/ \E k \in Slots : PostAiTokenWritten(k)

SpecConcurrentTokens == InitConcurrentTokens /\ [][ConcurrentTokensNext]_vars

\* the requests of user u for the service whose UPDATE or INSERT has run
TokenWriters(u, service) ==
  { k \in DOMAIN pending :
      /\ pending[k].user = u /\ pending[k].body.service = {service}
      /\ pending[k].order > 0 }

\* C23: a user has at most one row per service, and once a request has
\* written, that row holds the token of the request that wrote last
C23_OneRowPerUserAndService ==
  \A u \in Users, service \in ValidServices :
    LET rows == { r \in tables["ai_tokens"] : r.user_id = u /\ r.data.service = {service} } IN
    /\ Cardinality(rows) <= 1
    /\ \A k \in TokenWriters(u, service) :
         (\A j \in TokenWriters(u, service) : pending[j].order <= pending[k].order)
           => \A r \in rows : r.data.token_encrypted = pending[k].encryptedToken

\* ---------------------------------------------------------------------------
\* Deactivated, deleted and unreadable tokens
\* ---------------------------------------------------------------------------

\* a stored value whose auth tag belongs to another ciphertext: decrypt throws
Unreadable(encryptedData) ==
  <<encryptedData[1], encryptedData[2],
    toHex([mac |-> <<"iv2", <<"aes-256-gcm", "iv2", "other">>>>, len |-> AuthTagLength])>>

\* the tokens user A submits anew
ResubmittedBodies ==
  { [service |-> {s}, token |-> {"gsk_test_9876543210"}] : s \in {"groq", "together"} }

\* user A holds a groq and a together token, the together one readable or not;
\* user B holds a groq token
InitActive ==
  /\ cache = <<>>
  /\ pending = <<>>
  /\ bills = {} /\ bill_payments = {}
  /\ req = NoReq /\ resp = NoResp /\ lastPut = Null
  /\ scenario = [bills |-> 0, payments |-> 0, rows |-> 3, scope |-> {"ai_tokens"},
                 ids |-> {"A-groq", "A-together"}]
  /\ \E together \in {TokenRow("A", "together"),
                      [TokenRow("A", "together") EXCEPT
                         !.data.token_encrypted = {Unreadable(Val(@))}]} :
       tables = [EmptyTables EXCEPT
                   !["ai_tokens"] = {TokenRow("A", "groq"), together, TokenRow("B", "groq")}]

ActiveNext ==
  \/ \E b \in ResubmittedBodies : PostAiToken("A", b, "iv1")
  \/ \E id \in {"A-groq", "A-together"} : ToggleAiToken("A", id)
  \/ \E id \in {"A-groq", "A-together"} : DeleteAiToken("A", id)
  \/ \E now \in Timestamps, shortTags \in BOOLEAN : GenerateCompletion("A", now, shortTags)

SpecActive == InitActive /\ [][ActiveNext]_vars

\* the plaintexts of the active rows of user u for the service that decrypt
UsableTokens(u, service) ==
  { Val(decrypt(Val(r.data.token_encrypted), FALSE)) :
      r \in { x \in tables["ai_tokens"] :
                /\ x.user_id = u /\ x.data.service = {service} /\ x.data.is_active = {1}
                /\ decrypt(Val(x.data.token_encrypted), FALSE) # Null } }

\* C24: a toggle answered 'deactivated' leaves the row inactive, a delete
\* removes it and a POST leaves it active; generateCompletion passes to a
\* provider only the token of a row that is stored, active and readable when
\* it starts, and as long as there is such a row it calls a provider instead
\* of failing for want of tokens
C24_OnlyActiveReadableTokensArePassed ==
  [][ /\ (req'.route = "PUT /ai-tokens/:id/toggle" /\ resp'.status = 200) =>
           \A r \in tables'["ai_tokens"] :
             r.id = req'.id => (r.data.is_active = {1}) = resp'.is_active
      /\ (req'.route = "DELETE /ai-tokens/:id" /\ resp'.status = 200) =>
           \A r \in tables'["ai_tokens"] : r.id # req'.id
      /\ (req'.route = "POST /ai-tokens" /\ resp'.status \in {200, 201}) =>
           \E r \in tables'["ai_tokens"] :
             /\ r.user_id = req'.user /\ r.data.service = {resp'.service}
             /\ r.data.is_active = {1}
      /\ req'.route = "generateCompletion" =>
           /\ \A i \in 1..Len(resp'.called) :
                resp'.called[i].token \in UsableTokens(req'.user, resp'.called[i].provider)
           /\ (\E i \in 1..Len(Providers) : UsableTokens(req'.user, Providers[i]) # {})
                => resp'.called # <<>>
    ]_vars

\* the groq token is deactivated and the generateCompletion that followed
\* passed the together token only
C24_Witness_DeactivatedTokenSkipped ==
  /\ req.route = "generateCompletion" /\ req.user = "A"
  /\ \E r \in tables["ai_tokens"] :
       r.user_id = "A" /\ r.data.service = {"groq"} /\ r.data.is_active = {0}
  /\ Len(resp.called) = 1
  /\ resp.called[1].provider = "together"
  /\ resp.called[1].token = "gsk_live_0123456789"

\* ---------------------------------------------------------------------------
\* GET /ai-tokens/status against generateCompletion
\* ---------------------------------------------------------------------------

ReadyNext ==
  \/ \E b \in LLMTokenBodies : PostAiToken("A", b, "iv1")
  \/ \E sv \in ValidServices : ToggleAiToken("A", "A-" \o sv)
  \/ \E u \in {"A"} : GetAiTokenStatus(u)
  \/ \E now \in Timestamps, shortTags \in BOOLEAN : GenerateCompletion("A", now, shortTags)

SpecReady == InitLLM /\ [][ReadyNext]_vars

\* C25: a generateCompletion that follows a status response with
\* ready_for_ai = true for the same user calls a provider and does not end
\* with 'No AI tokens configured'
C25_ReadyMeansAProviderIsCalled ==
  [][ ( /\ req.route = "GET /ai-tokens/status" /\ resp.ready_for_ai
        /\ req'.route = "generateCompletion" /\ req'.user = req.user ) =>
          /\ resp'.called # <<>>
          /\ \A e \in resp'.error : e.failures # <<>>
    ]_vars

\* ---------------------------------------------------------------------------
\* AIService.getCompletion: what the cache returns
\* ---------------------------------------------------------------------------

\* a context with one entry
BudgetContext == <<<<"page", "budget">>>>

\* the calls made: two conversations that end with the same message, the second
\* of them also with a context
CacheRequests ==
  { [messages |-> <<"How much did I spend?", "Thanks">>, context |-> NoContext],
    [messages |-> <<"Delete my budget", "Thanks">>, context |-> NoContext],
    [messages |-> <<"Delete my budget", "Thanks">>, context |-> BudgetContext] }

CacheNext ==
  \E r \in CacheRequests, useCache \in BOOLEAN,
     outcome \in [1..MostAttempts -> BOOLEAN], now \in ClockTimes :
    GetCompletion("chatAssistant", r.messages, r.context, useCache, {1}, outcome, now)

SpecCache == InitCompletion /\ [][CacheNext]_vars

\* the call was answered from the cache
CacheHit ==
  /\ req.route = "getCompletion"
  /\ resp.calls = <<>> /\ resp.response # Null

\* C26: a response returned from the cache was asked for with useCache, was
\* stored less than ttl seconds before the call, and is the provider's answer
\* to the same agent, context and message list as the call's
C26_CacheHitOnlyForIdenticalRequest ==
  CacheHit =>
    /\ req.useCache
    /\ \E i \in DOMAIN cache :
         /\ cache[i].value.response = Val(resp.response)
         /\ req.now - cache[i].value.timestamp < ttl * 1000
    /\ Val(resp.response).content =
         <<"answer to", fullMessages(req.id, req.messages, req.context)>>

\* ---------------------------------------------------------------------------
\* AIService.getCompletion: the size of the cache
\* ---------------------------------------------------------------------------

\* the entry a successful call with the one message q stored at time 0
StoredEntry(q) ==
  [key |-> getCacheKey("chatAssistant", <<q>>, NoContext),
   value |-> [response |-> ProviderResponse(fullMessages("chatAssistant", <<q>>, NoContext), 0),
              timestamp |-> 0]]

\* the questions asked: the two whose answers are the oldest entries of the
\* cache, and two new ones
Questions == {"q1", "q2", "new1", "new2"}

\* the cache after maxSize - 1 successful calls with different questions
InitEviction ==
  /\ cache = [i \in 1..(maxSize - 1) |-> StoredEntry("q" \o ToString(i))]
  /\ pending = <<>>
  /\ bills = {} /\ bill_payments = {} /\ tables = EmptyTables
  /\ req = NoReq /\ resp = NoResp /\ lastPut = Null
  /\ scenario = [bills |-> 0, payments |-> 0, rows |-> 0, scope |-> {}, ids |-> {}]

EvictionNext ==
  \E q \in Questions, useCache \in BOOLEAN,
     outcome \in [1..MostAttempts -> BOOLEAN], now \in {0, ttl * 1000} :
    GetCompletion("chatAssistant", <<q>>, NoContext, useCache, {1}, outcome, now)

SpecEviction == InitEviction /\ [][EvictionNext]_vars

\* the keys of the entries
Keys(entries) == { entries[i].key : i \in DOMAIN entries }

\* C27: the cache never holds more than maxSize entries; a call that stores a
\* new key in a full cache drops the oldest entry and nothing else, a call
\* that stores a key the cache holds, or a new key in a cache that is not
\* full, drops nothing and leaves the order of the entries as it was, and a
\* call that stores nothing leaves the cache alone
C27_CacheBoundedOldestEvicted ==
  /\ [](Len(cache) <= maxSize)
  /\ [][ IF ~( /\ req'.route = "getCompletion" /\ req'.useCache
                /\ resp'.calls # <<>> /\ resp'.response # Null )
           THEN cache' = cache
         ELSE
           LET key == getCacheKey(req'.id, req'.messages, req'.context) IN
           IF key \in Keys(cache)
             THEN /\ Len(cache') = Len(cache)
                  /\ \A i \in DOMAIN cache :
                       /\ cache'[i].key = cache[i].key
                       /\ cache[i].key # key => cache'[i] = cache[i]
           ELSE IF Len(cache) < maxSize
             THEN /\ Len(cache') = Len(cache) + 1
                  /\ SubSeq(cache', 1, Len(cache)) = cache
                  /\ cache'[Len(cache')].key = key
           ELSE /\ Len(cache') = maxSize
                /\ SubSeq(cache', 1, maxSize - 1) = Tail(cache)
                /\ cache'[maxSize].key = key
       ]_vars

\* the cache is full, its oldest entry is the answer to the third question
\* (those to the first and second were evicted), and the first question,
\* asked again, has the newest entry
C27_Witness_OldestEvicted ==
  /\ Len(cache) = maxSize
  /\ cache[1].key = getCacheKey("chatAssistant", <<"q3">>, NoContext)
  /\ cache[maxSize].key = getCacheKey("chatAssistant", <<"q1">>, NoContext)
  /\ req.route = "getCompletion" /\ req.messages = <<"q1">>
  /\ resp.calls = <<1>> /\ resp.response # Null

\* ---------------------------------------------------------------------------
\* Requests in flight: POST /bills/:id/payments and DELETE /bills/:id
\* ---------------------------------------------------------------------------

\* the bill of user u with the given id, as POST /bills stored it
BillRow(u, id) ==
  [id |-> id, user_id |-> u, bill_name |-> {"Electric"}, bill_type |-> {"electric"},
   target_amount |-> {100}, due_day |-> Null, is_active |-> {1}, notes |-> Null]

\* req.body of the payments recorded
ConcurrentPaymentBodies ==
  { [amount_paid |-> a, payment_date |-> {<<2024, 1, 15>>}, notes |-> Null] :
       a \in {Null, {50}} }

\* POST /bills/:id/payments up to db.run: validation, then the INSERT is handed
\* to the database
PaymentReceived(k, u, bill_id, body) ==
  LET invalid == FalsyNum(body.amount_paid) \/ body.payment_date = Null IN
  /\ Free(k)
  /\ pending' = Put(k, [route |-> "POST /bills/:id/payments", user |-> u, id |-> bill_id,
                        body |-> body, pc |-> IF invalid THEN "answered" ELSE "inserting",
                        order |-> 0, status |-> IF invalid THEN 400 ELSE 0])
  /\ req' = [route |-> "POST /bills/:id/payments", user |-> u, id |-> bill_id,
             missing |-> Missing(body, {"amount_paid", "payment_date"})]
  /\ IF invalid THEN resp' = [status |-> 400, bills |-> {}, payments |-> {}]
     ELSE UNCHANGED resp
  /\ UNCHANGED <<bills, bill_payments, tables, lastPut, scenario, cache>>

\* the INSERT INTO bill_payments runs and its callback answers 201; the
\* connection does not enforce the FOREIGN KEY clauses of the table
PaymentInserted(k) ==
  /\ k \in DOMAIN pending /\ pending[k].pc = "inserting"
  /\ LET p == pending[k]
         d == Val(p.body.payment_date)
         row == [id |-> "pay" \o ToString(k), bill_id |-> p.id, user_id |-> p.user,
                 amount_paid |-> p.body.amount_paid,
                 payment_date |-> p.body.payment_date,
                 month_year |-> {SubSeq(d, 1, 2)}, notes |-> p.body.notes] IN
     /\ bill_payments' = bill_payments \cup {row}
     /\ pending' = Put(k, [p EXCEPT !.pc = "answered", !.status = 201,
                                    !.order = Executed + 1])
     /\ req' = [route |-> p.route, user |-> p.user, id |-> p.id, missing |-> {}]
     /\ resp' = [status |-> 201, bills |-> {}, payments |-> {}]
  /\ UNCHANGED <<bills, tables, lastPut, scenario, cache>>

\* DELETE /bills/:id up to its first db.run
DeleteBillReceived(k, u, id) ==
  /\ Free(k)
  /\ pending' = Put(k, [route |-> "DELETE /bills/:id", user |-> u, id |-> id,
                        pc |-> "deleting payments", order |-> 0, status |-> 0])
  /\ req' = [route |-> "DELETE /bills/:id", user |-> u, id |-> id, missing |-> {}]
  /\ UNCHANGED <<bills, bill_payments, tables, resp, lastPut, scenario, cache>>

\* DELETE FROM bill_payments WHERE bill_id = ? runs; its callback hands the
\* second statement to the database
DeleteBillPaymentsRun(k) ==
  /\ k \in DOMAIN pending /\ pending[k].pc = "deleting payments"
  /\ bill_payments' = { p \in bill_payments : p.bill_id # pending[k].id }
  /\ pending' = Put(k, [pending[k] EXCEPT !.pc = "deleting bill"])
  /\ UNCHANGED <<bills, tables, req, resp, lastPut, scenario, cache>>

\* DELETE FROM bills WHERE id = ? AND user_id = ? runs and its callback answers
DeleteBillRun(k) ==
  /\ k \in DOMAIN pending /\ pending[k].pc = "deleting bill"
  /\ LET p == pending[k]
         matched == { b \in bills : b.id = p.id /\ b.user_id = p.user }
         status == IF matched = {} THEN 404 ELSE 200 IN
     /\ bills' = bills \ matched
     /\ pending' = Put(k, [p EXCEPT !.pc = "answered", !.status = status,
                                    !.order = Executed + 1])
     /\ req' = [route |-> p.route, user |-> p.user, id |-> p.id, missing |-> {}]
     /\ resp' = [status |-> status, bills |-> {}, payments |-> {}]
  /\ UNCHANGED <<bill_payments, tables, lastPut, scenario, cache>>

\* user A owns bill b1, user B bill b2; no payment is stored
InitConcurrentBills ==
  /\ cache = <<>>
  /\ pending = <<>>
  /\ tables = EmptyTables
  /\ scenario = [bills |-> 2, payments |-> MaxInFlight, rows |-> 0, scope |-> {}, ids |-> {}]
  /\ bills = {BillRow("A", "b1"), BillRow("B", "b2")}
  /\ bill_payments = {}
  /\ req = NoReq /\ resp = NoResp /\ lastPut = Null

ConcurrentBillsNext ==
  \/ \E k \in Slots, u \in Users, id \in BillIds \cup {"b9"}, b \in ConcurrentPaymentBodies :
       PaymentReceived(k, u, id, b)
  \/ \E k \in Slots : PaymentInserted(k)
  \/ \E k \in Slots, u \in Users, id \in BillIds : DeleteBillReceived(k, u, id)
  \/ \E k \in Slots : DeleteBillPaymentsRun(k)
  \/ \E k \in Slots : DeleteBillRun(k)

SpecConcurrentBills == InitConcurrentBills /\ [][ConcurrentBillsNext]_vars

\* every request in flight has been answered
Quiescent == \A k \in DOMAIN pending : pending[k].pc = "answered"

\* C28: once every request has been answered, each stored payment references
\* a stored bill of the payment's user
C28_PaymentsReferenceOwnBills ==
  Quiescent =>
    \A p \in bill_payments :
      \E b \in bills : b.id = p.bill_id /\ b.user_id = p.user_id

\* ---------------------------------------------------------------------------
\* Requests in flight: GET /wealth/networth beside writes to the accounts
\* ---------------------------------------------------------------------------

\* SELECT SUM(balance) FROM (checking and savings accounts UNION ALL
\* retirement accounts UNION ALL assets): NULL over no rows
assetsQuery(tbl, u) ==
  LET rows ==
        { <<"accounts", r.id, Val(r.data.balance)>> :
            r \in { a \in tbl["accounts"] :
                      a.user_id = u /\ a.data.type \subseteq {"checking", "savings"} } }
        \cup { <<"retirement_accounts", r.id, Val(r.data.balance)>> :
                 r \in { a \in tbl["retirement_accounts"] : a.user_id = u } }
        \cup { <<"assets", r.id, Val(r.data.value)>> :
                 r \in { a \in tbl["assets"] : a.user_id = u } }
  IN IF rows = {} THEN Null ELSE {SumOf([x \in rows |-> x[3]], rows)}

\* SELECT SUM(ABS(balance)) FROM accounts WHERE type is a debt: NULL over no rows
liabilitiesQuery(tbl, u) ==
  LET rows == { r \in tbl["accounts"] :
                  /\ r.user_id = u
                  /\ r.data.type \subseteq {"credit_card", "loan", "mortgage", "other_debt"} }
  IN IF rows = {} THEN Null ELSE {SumOf([r \in rows |-> Abs(Val(r.data.balance))], rows)}

\* total || 0
OrZero(total) == IF FalsyNum(total) THEN 0 ELSE Val(total)

\* what the handler would answer if both queries read the database state tbl
TotalsOf(tbl, u) == <<OrZero(assetsQuery(tbl, u)), OrZero(liabilitiesQuery(tbl, u))>>

\* the requests in flight with the database state tbl added to the states the
\* database has been in since each GET /wealth/networth request arrived
Observed(tbl) ==
  [k \in DOMAIN pending |->
     IF pending[k].route = "GET /wealth/networth" /\ pending[k].pc # "answered"
       THEN [pending[k] EXCEPT !.seen = @ \cup {TotalsOf(tbl, pending[k].user)}]
       ELSE pending[k]]

\* the handler up to its first db.get
NetWorthReceived(k, u) ==
  /\ Free(k)
  /\ pending' = Put(k, [route |-> "GET /wealth/networth", user |-> u, id |-> "",
                        pc |-> "assets queued", order |-> 0, status |-> 0,
                        assets |-> Null, total_assets |-> 0, total_liabilities |-> 0,
                        net_worth |-> 0, seen |-> {TotalsOf(tables, u)}])
  /\ req' = [route |-> "GET /wealth/networth", user |-> u, id |-> "", missing |-> {}]
  /\ UNCHANGED <<bills, bill_payments, tables, resp, lastPut, scenario, cache>>

\* db.get(assetsQuery) runs; its callback hands liabilitiesQuery to the database
NetWorthAssetsRead(k) ==
  /\ k \in DOMAIN pending /\ pending[k].pc = "assets queued"
  /\ pending' = Put(k, [pending[k] EXCEPT !.pc = "liabilities queued",
                                          !.assets = assetsQuery(tables, pending[k].user)])
  /\ UNCHANGED <<bills, bill_payments, tables, req, resp, lastPut, scenario, cache>>

\* db.get(liabilitiesQuery) runs and its callback answers
NetWorthLiabilitiesRead(k) ==
  /\ k \in DOMAIN pending /\ pending[k].pc = "liabilities queued"
  /\ LET p == pending[k]
         liabilities == liabilitiesQuery(tables, p.user)
         totalAssets == OrZero(p.assets)
         totalLiabilities == OrZero(liabilities)
         netWorth == totalAssets - totalLiabilities IN
     /\ pending' = Put(k, [p EXCEPT !.pc = "answered", !.status = 200,
                                    !.order = Executed + 1,
                                    !.total_assets = totalAssets,
                                    !.total_liabilities = totalLiabilities,
                                    !.net_worth = netWorth])
     /\ req' = [route |-> p.route, user |-> p.user, id |-> "", missing |-> {}]
     /\ resp' = [status |-> 200, total_assets |-> totalAssets,
                 total_liabilities |-> totalLiabilities, net_worth |-> netWorth]
  /\ UNCHANGED <<bills, bill_payments, tables, lastPut, scenario, cache>>

\* the accounts table after the one statement of a write request, and the
\* status the request is answered with
AccountStatement(w) ==
  LET t == "accounts"
      matched == Owned(t, w.id, w.user) IN
  CASE w.route = "POST /wealth/accounts" ->
         IF Falsy("name", w.body.name) \/ Falsy("type", w.body.type)
           THEN [rows |-> tables[t], status |-> 400]
           ELSE IF ~SqlOk(t, w.body)
             THEN [rows |-> tables[t], status |-> 500]
             ELSE [rows |-> tables[t] \cup {[id |-> w.id, user_id |-> w.user,
                                             parent |-> Null, data |-> w.body]},
                   status |-> 201]
    [] w.route = "PUT /wealth/accounts/:id" ->
         IF matched # {} /\ ~SqlOk(t, w.body)
           THEN [rows |-> tables[t], status |-> 500]
           ELSE IF matched = {}
             THEN [rows |-> tables[t], status |-> 404]
             ELSE [rows |-> (tables[t] \ matched)
                              \cup { SetAllColumns(r, w.body) : r \in matched },
                   status |-> 200]
    [] w.route = "DELETE /wealth/accounts/:id" ->
         [rows |-> tables[t] \ matched, status |-> IF matched = {} THEN 404 ELSE 200]

\* POST, PUT or DELETE /wealth/accounts up to db.run; uuidv4() of a POST is an
\* id no other request has drawn
AccountWriteReceived(k, w) ==
  /\ Free(k)
  /\ w.route = "POST /wealth/accounts" =>
       \A j \in DOMAIN pending : pending[j].id # w.id
  /\ pending' = Put(k, [route |-> w.route, user |-> w.user, id |-> w.id, body |-> w.body,
                        pc |-> "queued", order |-> 0, status |-> 0])
  /\ req' = [route |-> w.route, user |-> w.user, id |-> w.id,
             missing |-> Missing(w.body, NotNullCols("accounts"))]
  /\ UNCHANGED <<bills, bill_payments, tables, resp, lastPut, scenario, cache>>

\* the one statement of the write request runs and its callback answers
AccountWritten(k) ==
  /\ k \in DOMAIN pending /\ pending[k].pc = "queued"
  /\ pending[k].route \in {"POST /wealth/accounts", "PUT /wealth/accounts/:id",
                           "DELETE /wealth/accounts/:id"}
  /\ LET w == pending[k]
         done == AccountStatement(w)
         after == [tables EXCEPT !["accounts"] = done.rows] IN
     /\ tables' = after
     /\ pending' = [Observed(after) EXCEPT ![k] =
                      [w EXCEPT !.pc = "answered", !.status = done.status,
                                !.order = Executed + 1]]
     /\ req' = [route |-> w.route, user |-> w.user, id |-> w.id,
                missing |-> Missing(w.body, NotNullCols("accounts"))]
     /\ Respond(done.status)
  /\ UNCHANGED <<bills, bill_payments, lastPut, scenario, cache>>

\* the write requests sent beside the reads: user A creates a loan, turns the
\* checking account into a credit card, changes its balance, deletes an
\* account; user B creates an account
AccountWrites ==
  { [route |-> "POST /wealth/accounts", user |-> "A", id |-> "r3",
     body |-> [name |-> {"car loan"}, type |-> {"loan"}, balance |-> {300}]],
    [route |-> "POST /wealth/accounts", user |-> "B", id |-> "r4",
     body |-> Sample("accounts")],
    [route |-> "POST /wealth/accounts", user |-> "A", id |-> "r5",
     body |-> [Sample("accounts") EXCEPT !.type = Null]],
    [route |-> "PUT /wealth/accounts/:id", user |-> "A", id |-> "r1",
     body |-> Sample2("accounts")],
    [route |-> "PUT /wealth/accounts/:id", user |-> "A", id |-> "r1",
     body |-> [Sample("accounts") EXCEPT !.balance = {2000}]],
    [route |-> "PUT /wealth/accounts/:id", user |-> "B", id |-> "r1",
     body |-> Sample2("accounts")] }
  \cup { [route |-> "DELETE /wealth/accounts/:id", user |-> "A", id |-> id,
          body |-> Sample("accounts")] : id \in {"r1", "r2"} }

\* user A holds a checking account and a credit card
InitConcurrentNetWorth ==
  /\ cache = <<>>
  /\ pending = <<>>
  /\ bills = {} /\ bill_payments = {}
  /\ req = NoReq /\ resp = NoResp /\ lastPut = Null
  /\ scenario = [bills |-> 0, payments |-> 0, rows |-> 0, scope |-> {"accounts"},
                 ids |-> {}]
  /\ tables = [EmptyTables EXCEPT
                 !["accounts"] = {[id |-> "r1", user_id |-> "A", parent |-> Null,
                                   data |-> Sample("accounts")],
                                  [id |-> "r2", user_id |-> "A", parent |-> Null,
                                   data |-> Sample2("accounts")]}]

ConcurrentNetWorthNext ==
  \/ \E k \in Slots, u \in Users : NetWorthReceived(k, u)
  \/ \E k \in Slots : NetWorthAssetsRead(k)
  \/ \E k \in Slots : NetWorthLiabilitiesRead(k)
  \/ \E k \in Slots, w \in AccountWrites : AccountWriteReceived(k, w)
  \/ \E k \in Slots : AccountWritten(k)

SpecConcurrentNetWorth == InitConcurrentNetWorth /\ [][ConcurrentNetWorthNext]_vars

\* C29: the totals of every answered GET /wealth/networth request are those of
\* one of the states the database was in while the request was in flight, and
\* net_worth is their difference
C29_NetWorthFromOneDatabaseState ==
  \A k \in DOMAIN pending :
    (pending[k].route = "GET /wealth/networth" /\ pending[k].pc = "answered") =>
      /\ <<pending[k].total_assets, pending[k].total_liabilities>> \in pending[k].seen
      /\ pending[k].net_worth = pending[k].total_assets - pending[k].total_liabilities

\* ---------------------------------------------------------------------------
\* GET /ai/insights: the net-worth insight of generateInsights
\* ---------------------------------------------------------------------------

MaxSnapshots == 3

\* LIMIT 6 of the net worth history query
HistoryLimit == 6

SnapshotIds == {"s1", "s2", "s3", "s4"}

SnapshotDates == {<<2024, 1, 15>>, <<2024, 2, 15>>, <<2024, 3, 15>>}

\* req.body of POST /wealth/networth/snapshot: a net worth of 1000 or 2000 on
\* one of three days
DatedSnapshotBodies ==
  { [total_assets |-> {a}, total_liabilities |-> {500}, snapshot_date |-> {d}] :
      a \in {1500, 2500}, d \in SnapshotDates }

\* SELECT * FROM net_worth_snapshots WHERE user_id = ? ORDER BY snapshot_date
\* DESC LIMIT 6: every row order the statement can return, SQLite leaving the
\* order of equal dates open
netWorthHistory(u) ==
  LET rows == { r \in tables["net_worth_snapshots"] : r.user_id = u }
      n == Cardinality(rows)
      sorted == { q \in Orderings(rows) :
                    \A i \in 1..n, j \in 1..n :
                      i < j => DateKey(Val(q[i].data.snapshot_date))
                                 >= DateKey(Val(q[j].data.snapshot_date)) }
  IN { [i \in 1..(IF n < HistoryLimit THEN n ELSE HistoryLimit) |->
          [net_worth |-> Val(q[i].data.net_worth),
           snapshot_date |-> Val(q[i].data.snapshot_date)]] : q \in sorted }

\* the title of the net-worth insight for a growth, none for 0
NetWorthTitle(growth) ==
  IF growth > 0 THEN {"Net Worth Increasing"}
  ELSE IF growth < 0 THEN {"Net Worth Declining"}
  ELSE Null

\* generateInsights, Insight 4: the title of the insight pushed, if any
generateInsights(userData) ==
  LET history == userData.netWorth.history IN
  IF Len(history) >= 2
    THEN LET recent == history[Len(history)]
             previous == history[Len(history) - 1]
             growth == recent.net_worth - previous.net_worth
         IN NetWorthTitle(growth)
    ELSE Null

\* the net worth history query of GET /ai/insights and generateInsights on
\* its result
GenerateInsights(u) ==
  /\ \E history \in netWorthHistory(u) :
       /\ req' = [route |-> "generateInsights", user |-> u, id |-> "", missing |-> {}]
       /\ resp' = [status |-> 200, history |-> history,
                   net_worth_insight |->
                     generateInsights([netWorth |-> [history |-> history]])]
  /\ Readonly

InitNetWorthInsight ==
  /\ cache = <<>>
  /\ pending = <<>>
  /\ bills = {} /\ bill_payments = {}
  /\ tables = EmptyTables
  /\ req = NoReq /\ resp = NoResp /\ lastPut = Null
  /\ scenario = [bills |-> 0, payments |-> 0, rows |-> MaxSnapshots,
                 scope |-> {"net_worth_snapshots"}, ids |-> SnapshotIds]

NetWorthInsightNext ==
  \/ \E b \in DatedSnapshotBodies : PostNetWorthSnapshot("A", b)
  \/ \E b \in SnapshotBodies : PostNetWorthSnapshot("B", b)
  \/ \E u \in Users : GenerateInsights(u)
  \/ \E u \in Users : AiInsights(u)

SpecNetWorthInsight == InitNetWorthInsight /\ [][NetWorthInsightNext]_vars

\* the titles the insight may carry: for a snapshot no other is later than and,
\* among the others, one no other is later than
LatestAgainstPrevious(rows) ==
  { NetWorthTitle(Val(latest.data.net_worth) - Val(previous.data.net_worth)) :
      <<latest, previous>> \in
        { pr \in rows \X rows :
            /\ pr[1] # pr[2]
            /\ \A r \in rows : DateKey(Val(r.data.snapshot_date))
                                 <= DateKey(Val(pr[1].data.snapshot_date))
            /\ \A r \in rows \ {pr[1]} : DateKey(Val(r.data.snapshot_date))
                                           <= DateKey(Val(pr[2].data.snapshot_date)) } }

\* C30: with two or more snapshots stored for the user, the net-worth insight
\* is the one for the latest snapshot's net worth minus that of the snapshot
\* immediately before it: increasing above 0, declining below 0, none at 0
C30_InsightComparesLatestWithPrevious ==
  req.route = "generateInsights" =>
    LET rows == { r \in tables["net_worth_snapshots"] : r.user_id = req.user } IN
    Cardinality(rows) >= 2 => resp.net_worth_insight \in LatestAgainstPrevious(rows)
====
